---- MODULE Spec2Model ----
(***************************************************************************)
(* A model of the ungod light system (src/Light.h, src/Light.cpp): the     *)
(* ambient colour interpolator, the flicker affectors, the affector        *)
(* update, the geometry setters with their contents-changed signal, the    *)
(* penumbra geometry of PointLight::getPenumbrasPoint and the draw order   *)
(* of PointLight::render and LightSystem::render.                          *)
(*                                                                         *)
(* Floating point values are modelled as exact rationals with a fixed      *)
(* denominator per quantity (named below); 8-bit colour channels keep      *)
(* their width.                                                            *)
(***************************************************************************)
EXTENDS Integers, Sequences, FiniteSets, TLC

VARIABLES
    \* ---- LightSystem ambient state (Light.h:368-370)
    mAmbientColor,   \* sf::Color, fields r, g, b in 0..255
    mColorShift,     \* sf::Vector3f, fields x, y, z in units of 1/ShiftDen
    lastOp,          \* name of the operation that produced this state
    lastTarget,      \* colour argument of the last interpolateAmbientLight
    lastStrength,    \* strength argument of the last interpolateAmbientLight
    ncalls,          \* number of operations performed so far
    \* ---- one light sprite and the two flicker functors (Light.h:244-271)
    spriteScale,     \* mSprite.getScale(), fields x, y in units of 1/ScaleDen
    initialScale,    \* the scale before the first tick
    flick,           \* LightFlickering: mDirection, mPeriod, mStrength, mTimer
    rflick,          \* RandomizedFlickering: + mBasePeriod, mSizeMemorizer
    \* ---- the components of the entities (Light.h:186-236)
    affector,        \* entity -> <<LightAffector>> or NoComponent
    multiAffector,   \* entity -> sequence of LightAffector or NoComponent
    emitter,         \* entity -> <<LightEmitter>> or NoComponent
    multiEmitter,    \* entity -> sequence of LightEmitter or NoComponent
    shadow,          \* entity -> <<ShadowEmitter>> or NoComponent
    multiShadow,     \* entity -> sequence of ShadowEmitter or NoComponent
    transf,          \* entity -> its Transform component (scale, then move)
    \* ---- what the last operation did
    lastArgs,        \* the arguments of the last operation
    calls,           \* the callback invocations of the last update, in order
    signals,         \* the contents-changed notifications of the last operation
    draws,           \* the clears and draws of the last render, in order
    evaluation       \* the last getPenumbrasPoint call: its inputs and outputs

ambVars == <<mAmbientColor, mColorShift, lastTarget, lastStrength>>
flickVars == <<spriteScale, initialScale, flick, rflick>>
affVars == <<affector, multiAffector>>
logVars == <<lastArgs, calls>>
worldVars == <<emitter, multiEmitter, shadow, multiShadow, transf>>
renderVars == <<signals, draws, evaluation>>
vars == <<mAmbientColor, mColorShift, lastOp, lastTarget, lastStrength, ncalls,
          spriteScale, initialScale, flick, rflick,
          affector, multiAffector, emitter, multiEmitter, shadow, multiShadow,
          transf, lastArgs, calls, signals, draws, evaluation>>

Abs(v) == IF v < 0 THEN -v ELSE v

(***************************************************************************)
(* Bounds of the model.                                                    *)
(***************************************************************************)
MaxCalls == 6      \* operations per behaviour of the ambient specifications
MaxRepeat == 12    \* calls per behaviour of the repeated interpolation
MaxTicks == 4      \* ticks per behaviour of the flicker specifications
MaxDelta == 2      \* largest frame delta of a tick
MaxAdvance == 3    \* largest advance of the wall clock between two ticks
NumEntities == 3   \* entities of the world
MultiCount == 2    \* members of every multi component
MaxOps == 4        \* operations per behaviour of the update specification
MaxSetterOps == 2  \* operations per behaviour of the setter specification
MaxPoints == 4     \* largest point index a setPoint call is tried with
MaxEvaluations == 2 \* getPenumbrasPoint calls per behaviour of the geometry specification
MaxRenderOps == 1 \* frames rendered per behaviour
MaxFacing == 4    \* longest facing list the boundary scan is tried with

(***************************************************************************)
(* Ambient colour (LightSystem::setAmbientColor, interpolateAmbientLight). *)
(***************************************************************************)
Uint8Range == 256
ShiftDen == 4

Uint8(v) == v % Uint8Range

Color(r, g, b) == [r |-> r, g |-> g, b |-> b]
White == Color(255, 255, 255)
Black == Color(0, 0, 0)

\* the colours the operations are called with
Colors == {White, Black, Color(252, 4, 128)}
\* the strengths the interpolation is called with (all > 0)
Strengths == {1, 4}

\* the colours of the repeated interpolation
ConvergeColors == Colors \cup {Color(4, 4, 4), Color(250, 250, 250)}

NoColor == Color(0, 0, 0)

IdleAmbient ==
    /\ mAmbientColor = White
    /\ mColorShift = [x |-> 0, y |-> 0, z |-> 0]
    /\ lastTarget = NoColor
    /\ lastStrength = 1

\* one channel of interpolateAmbientLight: the pair <<channel, carry>> after
\* the call. (float)(color.c - mAmbientColor.c)/strength is added to the
\* carry; a carry above 1 steps the 8-bit channel up, below -1 down.
InterpolateChannel(c, shift, t, strength) ==
    LET s1 == shift + (t - c) * (ShiftDen \div strength)
    IN  IF s1 > ShiftDen THEN <<Uint8(c + 1), s1 - ShiftDen>>
        ELSE IF s1 < -ShiftDen THEN <<Uint8(c - 1), s1 + ShiftDen>>
        ELSE <<c, s1>>

InterpolateColor(col, shift, target, strength) ==
    LET R == InterpolateChannel(col.r, shift.x, target.r, strength)
        G == InterpolateChannel(col.g, shift.y, target.g, strength)
        B == InterpolateChannel(col.b, shift.z, target.b, strength)
    IN  [color |-> Color(R[1], G[1], B[1]),
         shift |-> [x |-> R[2], y |-> G[2], z |-> B[2]]]

setAmbientColor(color) ==
    /\ ncalls < MaxCalls
    /\ mAmbientColor' = color
    /\ lastOp' = "setAmbientColor"
    /\ ncalls' = ncalls + 1
    /\ UNCHANGED <<mColorShift, lastTarget, lastStrength>>
    /\ UNCHANGED <<flickVars, affVars, logVars, worldVars, renderVars>>

interpolateAmbientLightStep(color, strength) ==
    /\ LET res == InterpolateColor(mAmbientColor, mColorShift, color, strength)
       IN  /\ mAmbientColor' = res.color
           /\ mColorShift' = res.shift
    /\ lastOp' = "interpolateAmbientLight"
    /\ lastTarget' = color
    /\ lastStrength' = strength
    /\ ncalls' = ncalls + 1
    /\ UNCHANGED <<flickVars, affVars, logVars, worldVars, renderVars>>

interpolateAmbientLight(color, strength) ==
    /\ ncalls < MaxCalls
    /\ interpolateAmbientLightStep(color, strength)

(***************************************************************************)
(* Flicker functors (LightFlickering, RandomizedFlickering).               *)
(* Periods and the timer are in milliseconds, the sprite scale and         *)
(* mSizeMemorizer in units of 1/ScaleDen. The wall clock of sf::Clock is   *)
(* an input: it advances by any amount between two ticks.                  *)
(***************************************************************************)
ScaleDen == 24

\* periods and strengths the functors are constructed with (all > 0)
Periods == {2, 4}
BasePeriods == {4, 8}
FlickerStrengths == {1, 2}
\* NumberGenerator::getFloatRandBetw(0.5f, 1.0f), in quarters
RandomFactors == {2, 3, 4}

IdleFlicker ==
    /\ spriteScale = [x |-> ScaleDen, y |-> ScaleDen]
    /\ initialScale = [x |-> ScaleDen, y |-> ScaleDen]
    /\ flick = [mDirection |-> FALSE, mPeriod |-> 2, mStrength |-> 1, mTimer |-> 0]
    /\ rflick = [mDirection |-> FALSE, mPeriod |-> 2, mBasePeriod |-> 4,
                 mStrength |-> 1, mTimer |-> 0, mSizeMemorizer |-> 0]

\* LightFlickering::LightFlickering(period, strength)
NewLightFlickering(period, strength) ==
    [mDirection |-> FALSE, mPeriod |-> period, mStrength |-> strength, mTimer |-> 0]

\* RandomizedFlickering::RandomizedFlickering(basePeriod, strength), with the
\* random factor the constructor draws
NewRandomizedFlickering(basePeriod, strength, factor) ==
    [mDirection |-> FALSE, mPeriod |-> (factor * basePeriod) \div 4,
     mBasePeriod |-> basePeriod, mStrength |-> strength, mTimer |-> 0,
     mSizeMemorizer |-> 0]

\* float scale = mStrength * delta / mPeriod, in units of 1/ScaleDen
ScaleStep(strength, delta, period) == (strength * delta * ScaleDen) \div period

\* LightFlickering::operator()(delta, light); elapsed is the reading of mTimer
LightFlickeringTick(f, sc, delta, elapsed) ==
    LET scale == ScaleStep(f.mStrength, delta, f.mPeriod)
        sc1 == IF f.mDirection
               THEN [x |-> sc.x + scale, y |-> sc.y + scale]
               ELSE [x |-> sc.x - scale, y |-> sc.y - scale]
        f1 == IF elapsed > f.mPeriod
              THEN [f EXCEPT !.mTimer = 0, !.mDirection = ~f.mDirection]
              ELSE [f EXCEPT !.mTimer = elapsed]
    IN  [f |-> f1, scale |-> sc1]

\* The functor with a growing tick that turns only once the light is larger
\* than it was: mSizeMemorizer > 0 in the place of >= 0.
RandomizedFlickeringTickLate(f, sc, delta, elapsed, factor) ==
    LET scale == ScaleStep(f.mStrength, delta, f.mPeriod)
        newPeriod == (factor * f.mBasePeriod) \div 4
    IN  IF f.mDirection
        THEN LET mem == f.mSizeMemorizer + scale
             IN  [scale |-> [x |-> sc.x + scale, y |-> sc.y + scale],
                  f |-> IF mem > 0 \/ elapsed > f.mPeriod
                        THEN [f EXCEPT !.mSizeMemorizer = mem, !.mTimer = 0,
                                       !.mDirection = FALSE, !.mPeriod = newPeriod]
                        ELSE [f EXCEPT !.mSizeMemorizer = mem, !.mTimer = elapsed]]
        ELSE LET mem == f.mSizeMemorizer - scale
             IN  [scale |-> [x |-> sc.x - scale, y |-> sc.y - scale],
                  f |-> IF mem <= -(f.mStrength * f.mPeriod * ScaleDen)
                           \/ elapsed > f.mPeriod
                        THEN [f EXCEPT !.mSizeMemorizer = mem, !.mTimer = 0,
                                       !.mDirection = TRUE, !.mPeriod = newPeriod]
                        ELSE [f EXCEPT !.mSizeMemorizer = mem, !.mTimer = elapsed]]

\* RandomizedFlickering::operator()(delta, light); factor is the random
\* number drawn when the direction flips
RandomizedFlickeringTick(f, sc, delta, elapsed, factor) ==
    LET scale == ScaleStep(f.mStrength, delta, f.mPeriod)
        newPeriod == (factor * f.mBasePeriod) \div 4
    IN  IF f.mDirection
        THEN LET mem == f.mSizeMemorizer + scale
             IN  [scale |-> [x |-> sc.x + scale, y |-> sc.y + scale],
                  f |-> IF mem >= 0 \/ elapsed > f.mPeriod
                        THEN [f EXCEPT !.mSizeMemorizer = mem, !.mTimer = 0,
                                       !.mDirection = FALSE, !.mPeriod = newPeriod]
                        ELSE [f EXCEPT !.mSizeMemorizer = mem, !.mTimer = elapsed]]
        ELSE LET mem == f.mSizeMemorizer - scale
             IN  [scale |-> [x |-> sc.x - scale, y |-> sc.y - scale],
                  f |-> IF mem <= -(f.mStrength * f.mPeriod * ScaleDen)
                           \/ elapsed > f.mPeriod
                        THEN [f EXCEPT !.mSizeMemorizer = mem, !.mTimer = 0,
                                       !.mDirection = TRUE, !.mPeriod = newPeriod]
                        ELSE [f EXCEPT !.mSizeMemorizer = mem, !.mTimer = elapsed]]

\* one update tick that calls the LightFlickering functor
FlickerTick(delta, advance) ==
    /\ ncalls < MaxTicks
    /\ LET res == LightFlickeringTick(flick, spriteScale, delta, flick.mTimer + advance)
       IN  /\ flick' = res.f
           /\ spriteScale' = res.scale
    /\ lastOp' = "LightFlickering"
    /\ ncalls' = ncalls + 1
    /\ UNCHANGED <<initialScale, rflick>>
    /\ UNCHANGED <<ambVars, affVars, logVars, worldVars, renderVars>>

\* one update tick that calls the RandomizedFlickering functor
RandomizedTick(delta, advance, factor) ==
    /\ ncalls < MaxTicks
    /\ LET res == RandomizedFlickeringTick(rflick, spriteScale, delta,
                                           rflick.mTimer + advance, factor)
       IN  /\ rflick' = res.f
           /\ spriteScale' = res.scale
    /\ lastOp' = "RandomizedFlickering"
    /\ ncalls' = ncalls + 1
    /\ UNCHANGED <<initialScale, flick>>
    /\ UNCHANGED <<ambVars, affVars, logVars, worldVars, renderVars>>

(***************************************************************************)
(* Entities and their components. The entity framework (dom) is outside    *)
(* the light system: which entity holds which component is fixed here.     *)
(* Entity e holds a Transform; e % 3 = 1: LightEmitter, LightAffector,     *)
(* ShadowEmitter; e % 3 = 2: MultiLightEmitter, LightAffector,             *)
(* MultiLightAffector, MultiShadowEmitter, each multi component with       *)
(* MultiCount members; e % 3 = 0: ShadowEmitter only.                      *)
(* Member i of a multi component is getComponent(i - 1).                   *)
(***************************************************************************)
\* a single component is a sequence of length 0 (the entity has none) or 1
NoComponent == <<>>
Null == "null"

Entities == 1..NumEntities
HasLightEmitter(e) == e % 3 = 1
HasMultiLightEmitter(e) == e % 3 = 2
HasLightAffector(e) == e % 3 \in {1, 2}
HasMultiLightAffector(e) == e % 3 = 2

\* a reference to a LightEmitter: the entity's own one, or member index of
\* its MultiLightEmitter
SingleEmitter(e) == [entity |-> e, index |-> 0]
MultiEmitter(e, i) == [entity |-> e, index |-> i]

\* LightAffector::LightAffector()
NullEmitter == [entity |-> 0, index |-> 0]
NewLightAffector == [mCallback |-> Null, mEmitter |-> NullEmitter, mActive |-> TRUE]

IdleAffectors ==
    /\ affector = [e \in Entities |->
                     IF HasLightAffector(e) THEN <<NewLightAffector>> ELSE NoComponent]
    /\ multiAffector = [e \in Entities |->
                          IF HasMultiLightAffector(e)
                          THEN [i \in 1..MultiCount |-> NewLightAffector]
                          ELSE NoComponent]

IdleLog ==
    /\ lastArgs = <<>>
    /\ calls = <<>>

\* the callbacks handed to setAffectorCallback: an empty std::function or a
\* callable
Callbacks == {Null, "flicker"}

\* the private LightSystem::setAffectorCallback(callback, affector, emitter)
BindAffector(a, callback, emitterRef) ==
    [a EXCEPT !.mCallback = callback, !.mEmitter = emitterRef]

\* LightAffector::setActive on the entity's LightAffector
AffectorSetActive(e, active) ==
    /\ ncalls < MaxOps
    /\ affector[e] # NoComponent
    /\ affector' = [affector EXCEPT ![e][1].mActive = active]
    /\ lastOp' = "LightAffector::setActive"
    /\ lastArgs' = <<>>
    /\ ncalls' = ncalls + 1
    /\ UNCHANGED <<multiAffector, calls>>
    /\ UNCHANGED <<ambVars, flickVars, worldVars, renderVars>>

\* LightAffector::setActive on member i of the entity's MultiLightAffector
MultiAffectorSetActive(e, i, active) ==
    /\ ncalls < MaxOps
    /\ multiAffector[e] # NoComponent
    /\ i \in DOMAIN multiAffector[e]
    /\ multiAffector' = [multiAffector EXCEPT ![e][i].mActive = active]
    /\ lastOp' = "LightAffector::setActive"
    /\ lastArgs' = <<>>
    /\ ncalls' = ncalls + 1
    /\ UNCHANGED <<affector, calls>>
    /\ UNCHANGED <<ambVars, flickVars, worldVars, renderVars>>

\* LightSystem::setAffectorCallback(e, callback)
setAffectorCallback1(e, callback) ==
    /\ ncalls < MaxOps
    /\ affector[e] # NoComponent
    /\ HasLightEmitter(e)
    /\ affector' = [affector EXCEPT ![e][1] = BindAffector(@, callback, SingleEmitter(e))]
    /\ lastOp' = "setAffectorCallback"
    /\ lastArgs' = <<>>
    /\ ncalls' = ncalls + 1
    /\ UNCHANGED <<multiAffector, calls>>
    /\ UNCHANGED <<ambVars, flickVars, worldVars, renderVars>>

\* LightSystem::setAffectorCallback(e, lightIndex, callback)
setAffectorCallback2(e, lightIndex, callback) ==
    /\ ncalls < MaxOps
    /\ affector[e] # NoComponent
    /\ HasMultiLightEmitter(e)
    /\ lightIndex \in 1..MultiCount
    /\ affector' = [affector EXCEPT ![e][1] = BindAffector(@, callback, MultiEmitter(e, lightIndex))]
    /\ lastOp' = "setAffectorCallback"
    /\ lastArgs' = <<>>
    /\ ncalls' = ncalls + 1
    /\ UNCHANGED <<multiAffector, calls>>
    /\ UNCHANGED <<ambVars, flickVars, worldVars, renderVars>>

\* LightSystem::setAffectorCallback(e, lightIndex, affectorIndex, callback)
setAffectorCallback3(e, lightIndex, affectorIndex, callback) ==
    /\ ncalls < MaxOps
    /\ multiAffector[e] # NoComponent
    /\ HasMultiLightEmitter(e)
    /\ lightIndex \in 1..MultiCount
    /\ affectorIndex \in DOMAIN multiAffector[e]
    /\ multiAffector' = [multiAffector EXCEPT ![e][affectorIndex] =
                            BindAffector(@, callback, MultiEmitter(e, lightIndex))]
    /\ lastOp' = "setAffectorCallback"
    /\ lastArgs' = <<>>
    /\ ncalls' = ncalls + 1
    /\ UNCHANGED <<affector, calls>>
    /\ UNCHANGED <<ambVars, flickVars, worldVars, renderVars>>

\* one invocation affector.mCallback(delta, *affector.mEmitter)
Invocation(e, i, a, delta) ==
    [entity |-> e, index |-> i, callback |-> a.mCallback, delta |-> delta,
     emitter |-> a.mEmitter]

\* update without the isActive test
ShouldInvokeIgnoringActive(a) == a.mCallback # Null

\* the test of LightSystem::update before it calls an affector
ShouldInvoke(a) == a.mActive /\ a.mCallback # Null

\* the first iteration of LightSystem::update: the LightAffector components
RECURSIVE AffectorCalls(_, _)
AffectorCalls(entities, delta) ==
    IF entities = <<>> THEN <<>>
    ELSE LET e == Head(entities)
             a == affector[e]
         IN  (IF a # NoComponent /\ ShouldInvoke(a[1])
              THEN <<Invocation(e, 0, a[1], delta)>> ELSE <<>>)
             \o AffectorCalls(Tail(entities), delta)

\* the members i.. of one MultiLightAffector
RECURSIVE MemberCalls(_, _, _, _)
MemberCalls(e, multi, i, delta) ==
    IF i > Len(multi) THEN <<>>
    ELSE (IF ShouldInvoke(multi[i])
          THEN <<Invocation(e, i, multi[i], delta)>> ELSE <<>>)
         \o MemberCalls(e, multi, i + 1, delta)

\* the second iteration of LightSystem::update: the MultiLightAffector components
RECURSIVE MultiAffectorCalls(_, _)
MultiAffectorCalls(entities, delta) ==
    IF entities = <<>> THEN <<>>
    ELSE LET e == Head(entities)
             m == multiAffector[e]
         IN  (IF m # NoComponent THEN MemberCalls(e, m, 1, delta) ELSE <<>>)
             \o MultiAffectorCalls(Tail(entities), delta)

\* the entity lists update is called with: lists without repetition
AllEntities == [e \in Entities |-> e]
Reversed(seq) == [i \in 1..Len(seq) |-> seq[Len(seq) + 1 - i]]
EntityLists ==
    {SubSeq(AllEntities, 1, k) : k \in 0..NumEntities}
        \cup {SubSeq(AllEntities, k, NumEntities) : k \in 1..NumEntities}
        \cup {Reversed(AllEntities)}

\* the deltas update is called with
FrameDeltas == {1, 2}

\* LightSystem::update(entities, delta)
update(entities, delta) ==
    /\ ncalls < MaxOps
    /\ calls' = AffectorCalls(entities, delta) \o MultiAffectorCalls(entities, delta)
    /\ lastOp' = "update"
    /\ lastArgs' = <<entities, delta>>
    /\ ncalls' = ncalls + 1
    /\ UNCHANGED affVars
    /\ UNCHANGED <<ambVars, flickVars, worldVars, renderVars>>

(***************************************************************************)
(* Lights, colliders and the LightSystem setters (Light.cpp:78-149,        *)
(* 911-980, 1008-1038).  Positions and points are whole world units, a     *)
(* sprite scale is in units of 1/ScaleDen, a sprite's bounding box in      *)
(* units of 1/BoxDen.                                                      *)
(***************************************************************************)
\* Width and height of the light texture; loadTexture puts the origin of the
\* sprite at its centre.
TextureSize == 20
BoxDen == 2 * ScaleDen

HasShadowEmitter(e) == e % 3 \in {0, 1}
HasMultiShadowEmitter(e) == e % 3 = 2

Min(S) == CHOOSE x \in S : \A y \in S : x <= y
Max(S) == CHOOSE x \in S : \A y \in S : x >= y

\* A transform that scales and then moves: p -> (sx*x + tx, sy*y + ty).
Transform(sx, sy, tx, ty) == [sx |-> sx, sy |-> sy, tx |-> tx, ty |-> ty]
Identity == Transform(1, 1, 0, 0)
NoEvaluation == <<>>

Rect(left, top, width, height) ==
    [left |-> left, top |-> top, width |-> width, height |-> height]

\* static_cast<int>(float): the fraction n/den truncated towards zero.
Trunc(n, den) == IF n >= 0 THEN n \div den ELSE -((-n) \div den)

\* static_cast<sf::IntRect>(sf::FloatRect): every field truncated.
IntRect(rect, den) ==
    Rect(Trunc(rect.left, den), Trunc(rect.top, den),
         Trunc(rect.width, den), Trunc(rect.height, den))

\* PointLight::PointLight: a default sprite with its origin at the centre of
\* the texture, source point (0,0); BaseLight::BaseLight: active.
NewPointLight ==
    [mActive |-> TRUE,
     mSprite |-> [position |-> <<0, 0>>,
                  scale |-> <<ScaleDen, ScaleDen>>,
                  color |-> White],
     mSourcePoint |-> <<0, 0>>]

\* LightCollider::LightCollider(): a shape without points, filled black, not
\* moved; the shape caches its bounds (sf::Shape::update).
NewLightCollider ==
    [mActive |-> TRUE,
     mLightOverShape |-> FALSE,
     mShape |-> [points |-> <<>>,
                 bounds |-> Rect(0, 0, 0, 0),
                 position |-> <<0, 0>>,
                 fillColor |-> Black]]

NewEmitters ==
    [e \in Entities |-> IF HasLightEmitter(e) THEN <<NewPointLight>> ELSE NoComponent]
NewMultiEmitters ==
    [e \in Entities |-> IF HasMultiLightEmitter(e)
                        THEN [i \in 1..MultiCount |-> NewPointLight] ELSE NoComponent]
NewShadows ==
    [e \in Entities |-> IF HasShadowEmitter(e) THEN <<NewLightCollider>> ELSE NoComponent]
NewMultiShadows ==
    [e \in Entities |-> IF HasMultiShadowEmitter(e)
                        THEN [i \in 1..MultiCount |-> NewLightCollider] ELSE NoComponent]
NewTransforms == [e \in Entities |-> Identity]

IdleWorld ==
    /\ emitter = NewEmitters
    /\ multiEmitter = NewMultiEmitters
    /\ shadow = NewShadows
    /\ multiShadow = NewMultiShadows
    /\ transf = NewTransforms

\* The light or collider of an entity: index 0 is the single component,
\* index i >= 1 the i-th member of the multi component.
LightAt(e, index) == IF index = 0 THEN emitter[e][1] ELSE multiEmitter[e][index]
ColliderAt(e, index) == IF index = 0 THEN shadow[e][1] ELSE multiShadow[e][index]

IdleRender ==
    /\ signals = <<>>
    /\ draws = <<>>
    /\ evaluation = NoEvaluation

\* PointLight::getBoundingBox: mSprite.getGlobalBounds(), the texture
\* rectangle scaled about the origin and moved to the position, in 1/BoxDen.
SpriteSpan(position, scale) ==
    LET a == BoxDen * position - scale * TextureSize
        b == BoxDen * position + scale * TextureSize
    IN  <<Min({a, b}), Abs(b - a)>>

LightBoundingBox(light) ==
    LET h == SpriteSpan(light.mSprite.position[1], light.mSprite.scale[1])
        v == SpriteSpan(light.mSprite.position[2], light.mSprite.scale[2])
    IN  Rect(h[1], v[1], h[2], v[2])

\* The bounding rectangle of a point list (sf::VertexArray::getBounds).
BoundsOf(points) ==
    LET xs == {points[i][1] : i \in DOMAIN points}
        ys == {points[i][2] : i \in DOMAIN points}
    IN  Rect(Min(xs), Min(ys), Max(xs) - Min(xs), Max(ys) - Min(ys))

\* sf::Shape::update: with fewer than three points the shape has no
\* geometry and the cached bounds stay as they were.
ShapeUpdate(shape) ==
    IF Len(shape.points) < 3 THEN shape
    ELSE [shape EXCEPT !.bounds = BoundsOf(shape.points)]

\* LightCollider::setPointCount: the point list resized, new points (0,0).
ColliderSetPointCount(c, numPoints) ==
    [c EXCEPT !.mShape = ShapeUpdate([c.mShape EXCEPT !.points =
        [i \in 1..numPoints |->
            IF i <= Len(c.mShape.points) THEN c.mShape.points[i] ELSE <<0, 0>>]])]

\* LightCollider::setPoint.
ColliderSetPoint(c, index, point) ==
    [c EXCEPT !.mShape = ShapeUpdate([c.mShape EXCEPT !.points[index] = point])]

\* The loop of LightSystem::setPoints: setPoint(i, points[i]) for i = from..
RECURSIVE ColliderSetPointsFrom(_, _, _)
ColliderSetPointsFrom(c, points, from) ==
    IF from > Len(points) THEN c
    ELSE ColliderSetPointsFrom(ColliderSetPoint(c, from, points[from]), points, from + 1)

\* LightCollider::getPointCount and LightCollider::getPoint.
ColliderGetPointCount(c) == Len(c.mShape.points)
ColliderGetPoint(c, index) == c.mShape.points[index + 1]

\* setPoints with a point count that only grows.
ColliderSetPointsGrowing(c, points) ==
    ColliderSetPointsFrom(
        ColliderSetPointCount(c, IF Len(points) > Len(c.mShape.points)
                                 THEN Len(points) ELSE Len(c.mShape.points)),
        points, 1)

\* The body of LightSystem::setPoints: setPointCount, then setPoint for
\* every index.
ColliderSetPoints(c, points) ==
    ColliderSetPointsFrom(ColliderSetPointCount(c, Len(points)), points, 1)

\* LightCollider::getBoundingBox: mShape.getGlobalBounds(), the cached
\* bounds moved by the position of the shape.
ColliderBoundingBox(c) ==
    Rect(c.mShape.bounds.left + c.mShape.position[1],
         c.mShape.bounds.top + c.mShape.position[2],
         c.mShape.bounds.width, c.mShape.bounds.height)

\* mContentsChangedSignal(e, static_cast<sf::IntRect>(box)).
LightChanged(e, light) == [entity |-> e, rect |-> IntRect(LightBoundingBox(light), BoxDen)]
ColliderChanged(e, c) == [entity |-> e, rect |-> IntRect(ColliderBoundingBox(c), 1)]

\* Inputs of the setters.
LightPositions == {<<0, 0>>, <<-3, 7>>}
LightScales == {<<ScaleDen, ScaleDen>>, <<ScaleDen \div 2, (3 * ScaleDen) \div 2>>,
                <<-(ScaleDen \div 8), ScaleDen \div 8>>}
LightColors == {White, Color(252, 4, 128)}
ColliderPoints == {<<-5, 9>>, <<4, -6>>}
PointLists == {<<>>,
               << <<1, 1>>, <<3, 2>> >>,
               << <<0, 0>>, <<4, 0>>, <<0, 3>> >>,
               << <<-2, -1>>, <<2, -1>>, <<2, 1>>, <<-2, 1>> >>}

SetterArgs(e, index, value) == [entity |-> e, index |-> index, value |-> value]

\* LightSystem::setLocalLightPosition(Entity, position), with the
\* notification sent before the sprite is moved.
setLocalLightPositionNotifyFirst(e, position) ==
    /\ ncalls < MaxSetterOps
    /\ HasLightEmitter(e)
    /\ emitter' = [emitter EXCEPT ![e][1].mSprite.position = position]
    /\ signals' = <<LightChanged(e, emitter[e][1])>>
    /\ lastOp' = "setLocalLightPosition"
    /\ lastArgs' = SetterArgs(e, 0, position)
    /\ ncalls' = ncalls + 1
    /\ UNCHANGED <<multiEmitter, shadow, multiShadow, calls, draws, transf, evaluation>>
    /\ UNCHANGED <<ambVars, flickVars, affVars>>

\* LightSystem::setLocalLightPosition(Entity, position).
setLocalLightPosition(e, position) ==
    /\ ncalls < MaxSetterOps
    /\ HasLightEmitter(e)
    /\ emitter' = [emitter EXCEPT ![e][1].mSprite.position = position]
    /\ signals' = <<LightChanged(e, emitter'[e][1])>>
    /\ lastOp' = "setLocalLightPosition"
    /\ lastArgs' = SetterArgs(e, 0, position)
    /\ ncalls' = ncalls + 1
    /\ UNCHANGED <<multiEmitter, shadow, multiShadow, calls, draws, transf, evaluation>>
    /\ UNCHANGED <<ambVars, flickVars, affVars>>

\* LightSystem::setLocalLightPosition(Entity, position, index).
setLocalLightPositionIndexed(e, position, index) ==
    /\ ncalls < MaxSetterOps
    /\ HasMultiLightEmitter(e)
    /\ index \in DOMAIN multiEmitter[e]
    /\ multiEmitter' = [multiEmitter EXCEPT ![e][index].mSprite.position = position]
    /\ signals' = <<LightChanged(e, multiEmitter'[e][index])>>
    /\ lastOp' = "setLocalLightPosition"
    /\ lastArgs' = SetterArgs(e, index, position)
    /\ ncalls' = ncalls + 1
    /\ UNCHANGED <<emitter, shadow, multiShadow, calls, draws, transf, evaluation>>
    /\ UNCHANGED <<ambVars, flickVars, affVars>>

\* LightSystem::setLightScale(Entity, scale).
setLightScale(e, scale) ==
    /\ ncalls < MaxSetterOps
    /\ HasLightEmitter(e)
    /\ emitter' = [emitter EXCEPT ![e][1].mSprite.scale = scale]
    /\ signals' = <<LightChanged(e, emitter'[e][1])>>
    /\ lastOp' = "setLightScale"
    /\ lastArgs' = SetterArgs(e, 0, scale)
    /\ ncalls' = ncalls + 1
    /\ UNCHANGED <<multiEmitter, shadow, multiShadow, calls, draws, transf, evaluation>>
    /\ UNCHANGED <<ambVars, flickVars, affVars>>

\* LightSystem::setLightScale(Entity, scale, index).
setLightScaleIndexed(e, scale, index) ==
    /\ ncalls < MaxSetterOps
    /\ HasMultiLightEmitter(e)
    /\ index \in DOMAIN multiEmitter[e]
    /\ multiEmitter' = [multiEmitter EXCEPT ![e][index].mSprite.scale = scale]
    /\ signals' = <<LightChanged(e, multiEmitter'[e][index])>>
    /\ lastOp' = "setLightScale"
    /\ lastArgs' = SetterArgs(e, index, scale)
    /\ ncalls' = ncalls + 1
    /\ UNCHANGED <<emitter, shadow, multiShadow, calls, draws, transf, evaluation>>
    /\ UNCHANGED <<ambVars, flickVars, affVars>>

\* LightSystem::setLightColor(Entity, color): no notification.
setLightColor(e, color) ==
    /\ ncalls < MaxSetterOps
    /\ HasLightEmitter(e)
    /\ emitter' = [emitter EXCEPT ![e][1].mSprite.color = color]
    /\ signals' = <<>>
    /\ lastOp' = "setLightColor"
    /\ lastArgs' = SetterArgs(e, 0, color)
    /\ ncalls' = ncalls + 1
    /\ UNCHANGED <<multiEmitter, shadow, multiShadow, calls, draws, transf, evaluation>>
    /\ UNCHANGED <<ambVars, flickVars, affVars>>

\* LightSystem::setLightColor(Entity, color, index): no notification.
setLightColorIndexed(e, color, index) ==
    /\ ncalls < MaxSetterOps
    /\ HasMultiLightEmitter(e)
    /\ index \in DOMAIN multiEmitter[e]
    /\ multiEmitter' = [multiEmitter EXCEPT ![e][index].mSprite.color = color]
    /\ signals' = <<>>
    /\ lastOp' = "setLightColor"
    /\ lastArgs' = SetterArgs(e, index, color)
    /\ ncalls' = ncalls + 1
    /\ UNCHANGED <<emitter, shadow, multiShadow, calls, draws, transf, evaluation>>
    /\ UNCHANGED <<ambVars, flickVars, affVars>>

\* LightSystem::setPoint(Entity, point, i); i is an index of the point list.
setPoint(e, point, i) ==
    /\ ncalls < MaxSetterOps
    /\ HasShadowEmitter(e)
    /\ i \in DOMAIN shadow[e][1].mShape.points
    /\ shadow' = [shadow EXCEPT ![e][1] = ColliderSetPoint(@, i, point)]
    /\ signals' = <<ColliderChanged(e, shadow'[e][1])>>
    /\ lastOp' = "setPoint"
    /\ lastArgs' = SetterArgs(e, 0, <<i, point>>)
    /\ ncalls' = ncalls + 1
    /\ UNCHANGED <<emitter, multiEmitter, multiShadow, calls, draws, transf, evaluation>>
    /\ UNCHANGED <<ambVars, flickVars, affVars>>

\* LightSystem::setPoint(Entity, point, pointIndex, colliderIndex).
setPointIndexed(e, point, pointIndex, colliderIndex) ==
    /\ ncalls < MaxSetterOps
    /\ HasMultiShadowEmitter(e)
    /\ colliderIndex \in DOMAIN multiShadow[e]
    /\ pointIndex \in DOMAIN multiShadow[e][colliderIndex].mShape.points
    /\ multiShadow' = [multiShadow EXCEPT
                         ![e][colliderIndex] = ColliderSetPoint(@, pointIndex, point)]
    /\ signals' = <<ColliderChanged(e, multiShadow'[e][colliderIndex])>>
    /\ lastOp' = "setPoint"
    /\ lastArgs' = SetterArgs(e, colliderIndex, <<pointIndex, point>>)
    /\ ncalls' = ncalls + 1
    /\ UNCHANGED <<emitter, multiEmitter, shadow, calls, draws, transf, evaluation>>
    /\ UNCHANGED <<ambVars, flickVars, affVars>>

\* LightSystem::setPoints(Entity, points).
setPoints(e, points) ==
    /\ ncalls < MaxSetterOps
    /\ HasShadowEmitter(e)
    /\ shadow' = [shadow EXCEPT ![e][1] = ColliderSetPoints(@, points)]
    /\ signals' = <<ColliderChanged(e, shadow'[e][1])>>
    /\ lastOp' = "setPoints"
    /\ lastArgs' = SetterArgs(e, 0, points)
    /\ ncalls' = ncalls + 1
    /\ UNCHANGED <<emitter, multiEmitter, multiShadow, calls, draws, transf, evaluation>>
    /\ UNCHANGED <<ambVars, flickVars, affVars>>

\* LightSystem::setPoints(Entity, points, colliderIndex).
setPointsIndexed(e, points, colliderIndex) ==
    /\ ncalls < MaxSetterOps
    /\ HasMultiShadowEmitter(e)
    /\ colliderIndex \in DOMAIN multiShadow[e]
    /\ multiShadow' = [multiShadow EXCEPT
                         ![e][colliderIndex] = ColliderSetPoints(@, points)]
    /\ signals' = <<ColliderChanged(e, multiShadow'[e][colliderIndex])>>
    /\ lastOp' = "setPoints"
    /\ lastArgs' = SetterArgs(e, colliderIndex, points)
    /\ ncalls' = ncalls + 1
    /\ UNCHANGED <<emitter, multiEmitter, shadow, calls, draws, transf, evaluation>>
    /\ UNCHANGED <<ambVars, flickVars, affVars>>

\* LightSystem::moveLights: every light of the entity moved, no notification.
MoveLight(light, vec) ==
    [light EXCEPT !.mSprite.position = <<@[1] + vec[1], @[2] + vec[2]>>]

moveLights(e, vec) ==
    /\ ncalls < MaxSetterOps
    /\ emitter' = [emitter EXCEPT ![e] =
                      [i \in DOMAIN @ |-> MoveLight(@[i], vec)]]
    /\ multiEmitter' = [multiEmitter EXCEPT ![e] =
                      [i \in DOMAIN @ |-> MoveLight(@[i], vec)]]
    /\ signals' = <<>>
    /\ lastOp' = "moveLights"
    /\ lastArgs' = SetterArgs(e, 0, vec)
    /\ ncalls' = ncalls + 1
    /\ UNCHANGED <<shadow, multiShadow, calls, draws, transf, evaluation>>
    /\ UNCHANGED <<ambVars, flickVars, affVars>>

\* LightSystem::moveLightColliders: every collider shape of the entity moved.
MoveCollider(c, vec) ==
    [c EXCEPT !.mShape.position = <<@[1] + vec[1], @[2] + vec[2]>>]

moveLightColliders(e, vec) ==
    /\ ncalls < MaxSetterOps
    /\ shadow' = [shadow EXCEPT ![e] =
                      [i \in DOMAIN @ |-> MoveCollider(@[i], vec)]]
    /\ multiShadow' = [multiShadow EXCEPT ![e] =
                      [i \in DOMAIN @ |-> MoveCollider(@[i], vec)]]
    /\ signals' = <<>>
    /\ lastOp' = "moveLightColliders"
    /\ lastArgs' = SetterArgs(e, 0, vec)
    /\ ncalls' = ncalls + 1
    /\ UNCHANGED <<emitter, multiEmitter, calls, draws, transf, evaluation>>
    /\ UNCHANGED <<ambVars, flickVars, affVars>>

MoveVectors == {<<2, -1>>}

(***************************************************************************)
(* PointLight::getPenumbrasPoint (Light.cpp:351-650).  The code computes   *)
(* in floats; the model computes the same quantities exactly.  A vector is *)
(* kept as p + side * mRadius * perp(p) / |p|: side 0 is the plain vector  *)
(* p, side 1 and -1 are the two rays from the rim of the light to a point  *)
(* at p from its centre.  Every comparison of the code is decided by the   *)
(* sign of u * sqrt(n) + v for whole numbers u, v, n.                      *)
(***************************************************************************)
mRadius == 10

Sgn(v) == IF v > 0 THEN 1 ELSE IF v < 0 THEN -1 ELSE 0
Dot(a, b) == a[1] * b[1] + a[2] * b[2]
Cross(a, b) == a[1] * b[2] - a[2] * b[1]
Sub(a, b) == <<a[1] - b[1], a[2] - b[2]>>
Perp(v) == <<-v[2], v[1]>>

\* sf::Transform::transformPoint.
TransformPoint(t, p) == <<t.sx * p[1] + t.tx, t.sy * p[2] + t.ty>>

\* sf::Transform a *= b: the transform that applies b, then a.
Combine(a, b) ==
    Transform(a.sx * b.sx, a.sy * b.sy, a.sx * b.tx + a.tx, a.sy * b.ty + a.ty)

\* LightCollider::getTransform: the shape is only ever moved.
ShapeTransform(c) == Transform(1, 1, c.mShape.position[1], c.mShape.position[2])

\* The largest s with s * s <= n.
RECURSIVE IsqrtBetween(_, _, _)
IsqrtBetween(n, lo, hi) ==
    IF lo = hi THEN lo
    ELSE LET mid == (lo + hi + 1) \div 2
         IN  IF mid * mid <= n THEN IsqrtBetween(n, mid, hi)
             ELSE IsqrtBetween(n, lo, mid - 1)

Isqrt(n) == IsqrtBetween(n, 0, IF n < 46340 THEN n ELSE 46340)

\* The sign of x - p/q, where x = (sqrt(n) + m) / d has whole part a, by the
\* continued fractions of both (n not a square, s = Isqrt(n), p >= 0, q > 0).
RECURSIVE CompareTail(_, _, _, _, _, _, _)
CompareTail(n, s, m, d, a, p, q) ==
    LET b == p \div q
        r == p % q
    IN  IF a # b THEN Sgn(a - b)
        ELSE IF r = 0 THEN 1
        ELSE LET m2 == d * a - m
                 d2 == (n - m2 * m2) \div d
                 a2 == (s + m2) \div d2
             IN  -CompareTail(n, s, m2, d2, a2, q, r)

\* The sign of sqrt(n) - p/q.
CompareSqrt(n, p, q) ==
    LET s == Isqrt(n)
    IN  IF s * s # n THEN CompareTail(n, s, 0, 1, s, p, q)
        ELSE IF s # p \div q THEN Sgn(s - p \div q)
        ELSE IF p % q = 0 THEN 0
        ELSE -1

\* The sign of u * sqrt(n) + v, n >= 1.
SignRad(u, v, n) ==
    IF u = 0 THEN Sgn(v)
    ELSE IF v = 0 THEN Sgn(u)
    ELSE IF Sgn(u) = Sgn(v) THEN Sgn(u)
    ELSE Sgn(u) * CompareSqrt(n, Abs(v), Abs(u))

\* point - (sourceCenter - side * perpendicularOffset), where
\* perpendicularOffset = normalize(perp(point - sourceCenter)) * mRadius;
\* normalize leaves the zero vector zero.
TangentRay(point, sourceCenter, side) ==
    LET sourceToPoint == Sub(point, sourceCenter)
    IN  [p |-> sourceToPoint,
         side |-> IF sourceToPoint = <<0, 0>> THEN 0 ELSE side]

PlainVector(v) == [p |-> v, side |-> 0]

\* The sign of dotProduct(ray, normalize(v)).
DotSign(ray, v) ==
    IF ray.p = <<0, 0>> THEN 0
    ELSE SignRad(Dot(ray.p, v), ray.side * mRadius * Dot(Perp(ray.p), v),
                 Dot(ray.p, ray.p))

\* getPoint((i < numPoints - 1) ? i + 1 : 0) and the point before, for the
\* indices 0..numPoints-1 of the code.
NextIndex(i, numPoints) == IF i < numPoints - 1 THEN i + 1 ELSE 0
PrevIndex(i, numPoints) == IF i > 0 THEN i - 1 ELSE numPoints - 1

\* One pass of the facing loop: the edge from point i to the next point.
FacingAt(points, sourceCenter, i) ==
    LET point == points[i + 1]
        nextPoint == points[NextIndex(i, Len(points)) + 1]
        normal == Perp(Sub(nextPoint, point))
        firstEdgeDot == DotSign(TangentRay(point, sourceCenter, 1), normal)
        secondEdgeDot == DotSign(TangentRay(point, sourceCenter, -1), normal)
        firstNextEdgeDot == DotSign(TangentRay(nextPoint, sourceCenter, 1), normal)
        secondNextEdgeDot == DotSign(TangentRay(nextPoint, sourceCenter, -1), normal)
    IN  [both |-> \/ (firstEdgeDot > 0 /\ secondEdgeDot > 0)
                  \/ (firstNextEdgeDot > 0 /\ secondNextEdgeDot > 0),
         one |-> \/ firstEdgeDot > 0
                 \/ secondEdgeDot > 0
                 \/ firstNextEdgeDot > 0
                 \/ secondNextEdgeDot > 0]

\* The loop for (i = 1; i < numPoints; ++i) over a facing list: index and
\* winding of every vertex whose facing differs from the vertex before.
RECURSIVE ScanFrom(_, _)
ScanFrom(facing, i) ==
    IF i >= Len(facing) THEN <<>>
    ELSE (IF facing[i + 1] # facing[i]
          THEN <<[index |-> i, winding |-> facing[i + 1]]>>
          ELSE <<>>) \o ScanFrom(facing, i + 1)

\* The scan without the separate check of the looping indices.
BoundaryScanNoWrap(facing) == ScanFrom(facing, 1)

\* The scan with the looping pair looked at before the loop.
BoundaryScanWrapFirst(facing) ==
    (IF facing[1] # facing[Len(facing)]
     THEN <<[index |-> 0, winding |-> facing[1]]>>
     ELSE <<>>) \o ScanFrom(facing, 1)

\* The scan of the code: the loop, then the looping pair (0, numPoints-1).
BoundaryScan(facing) ==
    ScanFrom(facing, 1) \o
        (IF facing[1] # facing[Len(facing)]
         THEN <<[index |-> 0, winding |-> facing[1]]>>
         ELSE <<>>)

\* intersectionAngle < penumbraAngle for the first wedge of a walk: the light
\* edge is the ray of one side at the point, the dark edge the ray of the
\* other side, edge the polygon edge the walk would follow.  With a the
\* angle from light edge to edge and f the half angle between the rays,
\* cos a > cos 2f is decided by the signs of cos a and cos 2f and, where
\* they agree, by the sign of sin(2f - a) * sin(2f + a).
FirstWedgeSpreads(sourceToPoint, side, edge) ==
    LET n == Dot(sourceToPoint, sourceToPoint)
        r2 == mRadius * mRadius
        a == Dot(sourceToPoint, edge)
        b == Dot(Perp(sourceToPoint), edge)
        cosIntersection == SignRad(a, side * mRadius * b, n)
        cosPenumbra == Sgn(n - r2)
        c1 == 1
        s1 == mRadius
        c3 == n - 3 * r2
        s3 == mRadius * (3 * n - r2)
        sinSum == IF side = 1 THEN SignRad(b * c1, a * s1, n)
                  ELSE SignRad(b * c3, a * s3, n)
        sinDiff == IF side = 1 THEN SignRad(-b * c3, a * s3, n)
                   ELSE SignRad(-b * c1, a * s1, n)
    IN  IF n = 0 THEN FALSE
        ELSE IF cosIntersection > cosPenumbra THEN TRUE
        ELSE IF cosIntersection < cosPenumbra THEN FALSE
        ELSE IF cosIntersection = 0 THEN FALSE
        ELSE IF cosIntersection > 0 THEN sinSum * sinDiff > 0
        ELSE sinSum * sinDiff < 0

\* intersectionAngle < penumbraAngle for a later wedge: the light edge is the
\* polygon edge the walk came along, the dark edge the ray of the given side
\* at the new point.
NextWedgeSpreads(lightEdge, sourceToPoint, side, edge) ==
    LET n == Dot(sourceToPoint, sourceToPoint)
        cosPenumbra == IF n = 0 THEN 0
                       ELSE SignRad(Dot(lightEdge, sourceToPoint),
                                    side * mRadius * Dot(Perp(sourceToPoint), lightEdge), n)
        cosIntersection == Sgn(Dot(lightEdge, edge))
        cp == Dot(lightEdge, sourceToPoint)
        sp == Cross(lightEdge, sourceToPoint)
        ce == Dot(lightEdge, edge)
        se == Cross(lightEdge, edge)
        sinSum == SignRad(sp * ce + cp * se, side * mRadius * (cp * ce - sp * se), n)
        sinDiff == SignRad(sp * ce - cp * se, side * mRadius * (cp * ce + sp * se), n)
    IN  IF lightEdge = <<0, 0>> THEN FALSE
        ELSE IF cosIntersection > cosPenumbra THEN TRUE
        ELSE IF cosIntersection < cosPenumbra THEN FALSE
        ELSE IF cosIntersection = 0 THEN FALSE
        ELSE IF cosIntersection > 0 THEN sinSum * sinDiff > 0
        ELSE sinSum * sinDiff < 0

\* intersectionAngle < penumbraAngle for the edges of a wedge as the walk
\* builds them.
IntersectionAngleSmaller(lightEdge, darkEdge, edge) ==
    IF lightEdge = darkEdge THEN FALSE
    ELSE IF lightEdge.side = 0 /\ darkEdge.side = 0
         THEN (IF lightEdge.p = <<0, 0>> THEN FALSE ELSE Sgn(Dot(lightEdge.p, edge)) > 0)
    ELSE IF lightEdge.side = 0
         THEN NextWedgeSpreads(lightEdge.p, darkEdge.p, darkEdge.side, edge)
    ELSE FirstWedgeSpreads(lightEdge.p, lightEdge.side, edge)

\* Brightness values: 1.0f, 0.0f and intersectionAngle / penumbraAngle of
\* the wedge at a vertex.
One == [kind |-> "one", at |-> -1]
Zero == [kind |-> "zero", at |-> -1]
AngleRatio(penumbraIndex) == [kind |-> "ratio", at |-> penumbraIndex]

Last(seq) == seq[Len(seq)]

\* The walk without the write to the outer slot.
SetOuterSkipped(acc, winding, vector, penumbraIndex) == acc

\* The walks with their slots exchanged.
SetOuterOtherSlot(acc, winding, vector, penumbraIndex) ==
    IF acc.outerBoundaryVectors = <<>> THEN acc
    ELSE LET slot == IF winding THEN 1 ELSE 2
         IN  [acc EXCEPT !.outerBoundaryVectors[slot] = vector,
                         !.outerBoundaryIndices[slot] = penumbraIndex]

\* The slot of the outer boundary lists a walk overwrites, if the lists are
\* not empty.
SetOuter(acc, winding, vector, penumbraIndex) ==
    IF acc.outerBoundaryVectors = <<>> THEN acc
    ELSE LET slot == IF winding THEN 2 ELSE 1
         IN  [acc EXCEPT !.outerBoundaryVectors[slot] = vector,
                         !.outerBoundaryIndices[slot] = penumbraIndex]

\* push_back without the swaps.
PushUnswapped(acc, penumbra, hasPrevPenumbra) ==
    [acc EXCEPT !.penumbras = Append(@, penumbra)]

\* std::swap of both brightness values of the new wedge with the last wedge
\* of the list, then push_back.
PushSwapped(acc, penumbra, hasPrevPenumbra) ==
    IF hasPrevPenumbra
    THEN LET back == Last(acc.penumbras)
         IN  [acc EXCEPT !.penumbras =
                 Append([acc.penumbras EXCEPT
                            ![Len(acc.penumbras)].darkBrightness = penumbra.darkBrightness,
                            ![Len(acc.penumbras)].lightBrightness = penumbra.lightBrightness],
                        [penumbra EXCEPT !.darkBrightness = back.darkBrightness,
                                         !.lightBrightness = back.lightBrightness])]
    ELSE [acc EXCEPT !.penumbras = Append(@, penumbra)]

\* The walk with the ratio written before the angles are compared and left
\* on the wedge that ends the walk.
RECURSIVE WalkRatioKept(_, _, _, _, _, _, _, _)
WalkRatioKept(points, sourceCenter, winding, penumbraIndex, hasPrevPenumbra, prevBrightness, count, acc) ==
    LET numPoints == Len(points)
        point == points[penumbraIndex + 1]
        towardIndex == IF winding THEN PrevIndex(penumbraIndex, numPoints)
                       ELSE NextIndex(penumbraIndex, numPoints)
        edge == Sub(points[towardIndex + 1], point)
        outerBoundaryVector ==
            TangentRay(point, sourceCenter, IF winding THEN -1 ELSE 1)
        lightEdge == IF hasPrevPenumbra THEN Last(acc.penumbras).darkEdge
                     ELSE Last(acc.innerBoundaryVectors)
        stepped == [source |-> point,
                    lightEdge |-> lightEdge,
                    darkEdge |-> PlainVector(edge),
                    lightBrightness |-> prevBrightness,
                    darkBrightness |-> AngleRatio(penumbraIndex)]
    IN  IF IntersectionAngleSmaller(lightEdge, outerBoundaryVector, edge)
        THEN IF count >= numPoints
             THEN [acc EXCEPT !.loops = TRUE]
             ELSE WalkRatioKept(points, sourceCenter, winding, towardIndex, TRUE,
                                AngleRatio(penumbraIndex), count + 1,
                                SetOuter(PushSwapped(acc, stepped, hasPrevPenumbra),
                                         winding, PlainVector(edge), towardIndex))
        ELSE SetOuter(PushSwapped(acc, [stepped EXCEPT !.darkEdge = outerBoundaryVector],
                                  hasPrevPenumbra),
                      winding, outerBoundaryVector, penumbraIndex)

\* The walk with the inner boundary vector as the light edge of every wedge,
\* the dark edge of the wedge before never handed on.
RECURSIVE WalkLightEdgeKept(_, _, _, _, _, _, _, _)
WalkLightEdgeKept(points, sourceCenter, winding, penumbraIndex, hasPrevPenumbra, prevBrightness, count, acc) ==
    LET numPoints == Len(points)
        point == points[penumbraIndex + 1]
        nextPointIndex == NextIndex(penumbraIndex, numPoints)
        prevPointIndex == PrevIndex(penumbraIndex, numPoints)
        towardIndex == IF winding THEN prevPointIndex ELSE nextPointIndex
        edge == Sub(points[towardIndex + 1], point)
        outerBoundaryVector ==
            TangentRay(point, sourceCenter, IF winding THEN -1 ELSE 1)
        lightEdge == Last(acc.innerBoundaryVectors)
        spreads == IntersectionAngleSmaller(lightEdge, outerBoundaryVector, edge)
        stepped == [source |-> point,
                    lightEdge |-> lightEdge,
                    darkEdge |-> PlainVector(edge),
                    lightBrightness |-> prevBrightness,
                    darkBrightness |-> AngleRatio(penumbraIndex)]
        ended == [stepped EXCEPT !.darkEdge = outerBoundaryVector,
                                 !.darkBrightness = Zero]
    IN  IF spreads
        THEN IF count >= numPoints
             THEN [acc EXCEPT !.loops = TRUE]
             ELSE WalkLightEdgeKept(points, sourceCenter, winding, towardIndex, TRUE,
                                    AngleRatio(penumbraIndex), count + 1,
                                    SetOuter(PushSwapped(acc, stepped, hasPrevPenumbra),
                                             winding, PlainVector(edge), towardIndex))
        ELSE SetOuter(PushSwapped(acc, ended, hasPrevPenumbra),
                      winding, outerBoundaryVector, penumbraIndex)

\* The loop while (penumbraIndex != -1) of one inner boundary.  count is the
\* number of wedges the walk has emitted.  A walk that follows an edge from
\* its wedge numPoints + 1 is back in the state of its second wedge: the
\* loop of the code never ends, and the model stops with loops = TRUE.
RECURSIVE Walk(_, _, _, _, _, _, _, _)
Walk(points, sourceCenter, winding, penumbraIndex, hasPrevPenumbra, prevBrightness, count, acc) ==
    LET numPoints == Len(points)
        point == points[penumbraIndex + 1]
        nextPointIndex == NextIndex(penumbraIndex, numPoints)
        prevPointIndex == PrevIndex(penumbraIndex, numPoints)
        towardIndex == IF winding THEN prevPointIndex ELSE nextPointIndex
        edge == Sub(points[towardIndex + 1], point)
        outerBoundaryVector ==
            TangentRay(point, sourceCenter, IF winding THEN -1 ELSE 1)
        lightEdge == IF hasPrevPenumbra THEN Last(acc.penumbras).darkEdge
                     ELSE Last(acc.innerBoundaryVectors)
        spreads == IntersectionAngleSmaller(lightEdge, outerBoundaryVector, edge)
        stepped == [source |-> point,
                    lightEdge |-> lightEdge,
                    darkEdge |-> PlainVector(edge),
                    lightBrightness |-> prevBrightness,
                    darkBrightness |-> AngleRatio(penumbraIndex)]
        ended == [stepped EXCEPT !.darkEdge = outerBoundaryVector,
                                 !.darkBrightness = Zero]
    IN  IF spreads
        THEN IF count >= numPoints
             THEN [acc EXCEPT !.loops = TRUE]
             ELSE Walk(points, sourceCenter, winding, towardIndex, TRUE,
                       AngleRatio(penumbraIndex), count + 1,
                       SetOuter(PushSwapped(acc, stepped, hasPrevPenumbra),
                                winding, PlainVector(edge), towardIndex))
        ELSE SetOuter(PushSwapped(acc, ended, hasPrevPenumbra),
                      winding, outerBoundaryVector, penumbraIndex)

\* The loop over the inner boundaries: the boundary vector, then the walk.
RECURSIVE InnerBoundaries(_, _, _, _, _)
InnerBoundaries(points, sourceCenter, inner, bi, acc) ==
    IF bi > Len(inner) \/ acc.loops THEN acc
    ELSE LET penumbraIndex == inner[bi].index
             winding == inner[bi].winding
             point == points[penumbraIndex + 1]
             firstEdgeRay == TangentRay(point, sourceCenter, -1)
             secondEdgeRay == TangentRay(point, sourceCenter, 1)
             outerBoundaryVector == IF winding THEN firstEdgeRay ELSE secondEdgeRay
             pushed == Append(acc.innerBoundaryVectors,
                              IF winding THEN secondEdgeRay ELSE firstEdgeRay)
             vectors == IF Len(inner) = 1 THEN Append(pushed, outerBoundaryVector)
                        ELSE pushed
         IN  InnerBoundaries(points, sourceCenter, inner, bi + 1,
                 Walk(points, sourceCenter, winding, penumbraIndex, FALSE, One, 0,
                      [acc EXCEPT !.innerBoundaryVectors = vectors]))

\* PointLight::getCastCenter: the source point scaled by the sprite and moved
\* to its position.
getCastCenter(light) ==
    <<light.mSprite.position[1]
          + (light.mSprite.scale[1] * light.mSourcePoint[1]) \div ScaleDen,
      light.mSprite.position[2]
          + (light.mSprite.scale[2] * light.mSourcePoint[2]) \div ScaleDen>>

\* What a call leaves in its five output lists when they are empty before
\* the call; loops says that the call never returns.
NoBoundaries ==
    [penumbras |-> <<>>,
     innerBoundaryIndices |-> <<>>,
     innerBoundaryVectors |-> <<>>,
     outerBoundaryIndices |-> <<>>,
     outerBoundaryVectors |-> <<>>,
     loops |-> FALSE]

getPenumbrasPoint(light, collider, colliderTransform, lightTransform) ==
    LET sourceCenter == TransformPoint(lightTransform, getCastCenter(light))
        numPoints == Len(collider.mShape.points)
        colliderLocalTranform == Combine(ShapeTransform(collider), colliderTransform)
        points == [i \in 1..numPoints |->
                      TransformPoint(colliderLocalTranform, collider.mShape.points[i])]
        facingFrontBothEdges ==
            [i \in 1..numPoints |-> FacingAt(points, sourceCenter, i - 1).both]
        facingFrontOneEdge ==
            [i \in 1..numPoints |-> FacingAt(points, sourceCenter, i - 1).one]
        inner == BoundaryScan(facingFrontBothEdges)
        outer == BoundaryScan(facingFrontOneEdge)
        outerVectors ==
            [bi \in 1..Len(outer) |->
                TangentRay(points[outer[bi].index + 1], sourceCenter,
                           IF outer[bi].winding THEN -1 ELSE 1)]
    IN  IF numPoints = 0 THEN NoBoundaries
        ELSE InnerBoundaries(points, sourceCenter, inner, 1,
                 [NoBoundaries EXCEPT
                     !.innerBoundaryIndices = [bi \in 1..Len(inner) |-> inner[bi].index],
                     !.outerBoundaryIndices = [bi \in 1..Len(outer) |-> outer[bi].index],
                     !.outerBoundaryVectors = outerVectors])

(***************************************************************************)
(* PointLight::render (Light.cpp:151-301), LightSystem::render and         *)
(* renderLight (Light.cpp:769-845).  A frame is the list of the clears and *)
(* draws it makes on the render textures and on the target, together with  *)
(* the colliders as the frame leaves them.                                 *)
(***************************************************************************)
NoRef == <<0, 0>>

\* One clear or draw: the texture written, what is drawn in which colour,
\* blend mode and shader of the render states, the light being rendered, the
\* collider the draw belongs to, the wedge of a penumbra draw.
Draw(target, op, what, color, blend, shader, light, collider, wedge) ==
    [target |-> target, op |-> op, what |-> what, color |-> color, blend |-> blend,
     shader |-> shader, light |-> light, collider |-> collider, wedge |-> wedge]

\* The sign of ray.x * v.y - ray.y * v.x for a whole vector v.
CrossSignPlain(ray, v) ==
    IF ray.p = <<0, 0>> THEN 0
    ELSE SignRad(Cross(ray.p, v), -ray.side * mRadius * Dot(ray.p, v),
                 Dot(ray.p, ray.p))

\* The sign of a.x * b.y - a.y * b.x: with s the cross and c the dot product
\* of the plain parts, the sign of (x * sqrt(nb) + y) * sqrt(na)
\* + (z * sqrt(nb) + w).
CrossSign(a, b) ==
    LET s == Cross(a.p, b.p)
        c == Dot(a.p, b.p)
        na == Dot(a.p, a.p)
        nb == Dot(b.p, b.p)
        x == s
        y == b.side * mRadius * c
        z == -a.side * mRadius * c
        w == a.side * b.side * mRadius * mRadius * s
        first == SignRad(x, y, nb)
        second == SignRad(z, w, nb)
        squares == SignRad(2 * x * y * na - 2 * z * w,
                           (x * x * nb + y * y) * na - z * z * nb - w * w, nb)
    IN  IF a.p = <<0, 0>> \/ b.p = <<0, 0>> THEN 0
        ELSE IF a.side = 0 THEN SignRad(s, y, nb)
        ELSE IF b.side = 0 THEN SignRad(s, z, na)
        ELSE IF first = 0 THEN second
        ELSE IF second = 0 \/ first = second THEN first
        ELSE first * squares

\* rayIntersect(as, ad, bs, bd, intersection): the rays as + u * ad and
\* bs + v * bd are not parallel and meet at u >= 0, v >= 0.
rayIntersect(as, ad, bs, bd) ==
    LET d == Sub(bs, as)
        det == CrossSign(bd, ad)
        u == CrossSignPlain(bd, d) * det
        v == CrossSignPlain(ad, d) * det
    IN  det # 0 /\ u >= 0 /\ v >= 0

RECURSIVE Concat(_)
Concat(seqs) == IF seqs = <<>> THEN <<>> ELSE Head(seqs) \o Concat(Tail(seqs))

\* The colliders and the draws of a frame.
ColliderOf(frame, ref) ==
    IF ref[2] = 0 THEN frame.shadow[ref[1]][1] ELSE frame.multiShadow[ref[1]][ref[2]]

WithCollider(frame, ref, c) ==
    IF ref[2] = 0 THEN [frame EXCEPT !.shadow[ref[1]][1] = c]
    ELSE [frame EXCEPT !.multiShadow[ref[1]][ref[2]] = c]

Drawn(frame, ds) == [frame EXCEPT !.draws = @ \o ds]

\* LightCollider::setColor.
ColliderSetColor(c, color) == [c EXCEPT !.mShape.fillColor = color]

\* A vertex of the triangle of a wedge: the source of the wedge, moved, if
\* extended, by normalizeVector(edge) * shadowExtension.
Vertex(source, extended, edge, texCoords) ==
    [position |-> [source |-> source, extended |-> extended, edge |-> edge],
     texCoords |-> texCoords]

\* The vertex array with the source at (0,0) and the dark edge at (0,1).
PenumbraTriangleSourceLast(penumbra) ==
    <<Vertex(penumbra.source, FALSE, PlainVector(<<0, 0>>), <<0, 0>>),
      Vertex(penumbra.source, TRUE, penumbra.lightEdge, <<1, 0>>),
      Vertex(penumbra.source, TRUE, penumbra.darkEdge, <<0, 1>>)>>

\* vertexArray[0..2] of a pass of the loop of unmaskWithPenumbras: positions
\* and texture coordinates.
PenumbraTriangle(penumbra) ==
    <<Vertex(penumbra.source, FALSE, PlainVector(<<0, 0>>), <<0, 1>>),
      Vertex(penumbra.source, TRUE, penumbra.lightEdge, <<1, 0>>),
      Vertex(penumbra.source, TRUE, penumbra.darkEdge, <<0, 0>>)>>

\* BaseLight::unmaskWithPenumbras: for every wedge of the list the two
\* uniforms set, the vertex array filled, and one draw with the unshadow
\* shader, which reads the uniforms as they are at the draw.
unmaskWithPenumbras(renderTexture, blend, penumbras, light, collider) ==
    [i \in 1..Len(penumbras) |->
        [target |-> renderTexture, op |-> "draw", what |-> "penumbra", color |-> White,
         blend |-> blend, shader |-> "unshadowShader", light |-> light,
         collider |-> collider, wedge |-> i,
         lightBrightness |-> penumbras[i].lightBrightness,
         darkBrightness |-> penumbras[i].darkBrightness,
         vertexArray |-> PenumbraTriangle(penumbras[i])]]

\* if (innerBoundaryIndices.size() != 2 || outerBoundaryIndices.size() != 2)
SkipsCollider(result) ==
    Len(result.innerBoundaryIndices) # 2 \/ Len(result.outerBoundaryIndices) # 2

\* The branch of a skipped collider, with the silhouette drawn before the
\* counts are looked at.
SkipColliderAfterSilhouette(frame, lightRef, ref) ==
    Drawn(frame, <<Draw("lightTexture", "draw", "silhouette", Black, "alpha", "none",
                        lightRef, ref, 0)>>)

\* continue: nothing is drawn and nothing changed for the collider.
SkipCollider(frame, lightRef, ref) == frame

\* The rest of a pass with the test of the outer rays left out: the shadow
\* quad and the wedges on the light texture for every collider.
CastShadowOnLightTexture(frame, lightRef, ref, lc, colliderFinalTransf, result) ==
    IF result.loops THEN [frame EXCEPT !.hang = TRUE]
    ELSE IF SkipsCollider(result) THEN SkipCollider(frame, lightRef, ref)
    ELSE Drawn(WithCollider(frame, ref, ColliderSetColor(lc, Black)),
               (IF lc.mLightOverShape THEN <<>>
                ELSE <<Draw("lightTexture", "draw", "silhouette", Black, "alpha", "none",
                            lightRef, ref, 0)>>)
               \o <<Draw("lightTexture", "draw", "shadowQuad", Black, "alpha", "none",
                         lightRef, ref, 0)>>
               \o unmaskWithPenumbras("lightTexture", "multiply", result.penumbras,
                                      lightRef, ref))

\* The rest of a pass with the wedges unmasked onto the light texture before
\* the shadow quad is drawn.
CastShadowUnmaskFirst(frame, lightRef, ref, lc, colliderFinalTransf, result) ==
    IF result.loops THEN [frame EXCEPT !.hang = TRUE]
    ELSE IF SkipsCollider(result) THEN SkipCollider(frame, lightRef, ref)
    ELSE Drawn(WithCollider(frame, ref, ColliderSetColor(lc, Black)),
               unmaskWithPenumbras("lightTexture", "multiply", result.penumbras,
                                   lightRef, ref)
               \o <<Draw("lightTexture", "draw", "shadowQuad", Black, "alpha", "none",
                         lightRef, ref, 0)>>)

\* The rest of a pass of the loop for a collider lc, from the return of
\* getPenumbrasPoint with the lists in result.
CastShadow(frame, lightRef, ref, lc, colliderFinalTransf, result) ==
    LET as == TransformPoint(colliderFinalTransf,
                             lc.mShape.points[result.outerBoundaryIndices[1] + 1])
        bs == TransformPoint(colliderFinalTransf,
                             lc.mShape.points[result.outerBoundaryIndices[2] + 1])
        asi == TransformPoint(colliderFinalTransf,
                              lc.mShape.points[result.innerBoundaryIndices[1] + 1])
        bsi == TransformPoint(colliderFinalTransf,
                              lc.mShape.points[result.innerBoundaryIndices[2] + 1])
        silhouette ==
            IF lc.mLightOverShape THEN <<>>
            ELSE <<Draw("lightTexture", "draw", "silhouette", Black, "alpha", "none",
                        lightRef, ref, 0)>>
        maskShape ==
            IF rayIntersect(asi, result.innerBoundaryVectors[1],
                            bsi, result.innerBoundaryVectors[2])
            THEN "antumbraTriangle" ELSE "antumbraQuad"
        antumbra ==
            <<Draw("antumbraTexture", "clear", "", White, "none", "none", lightRef, ref, 0),
              Draw("antumbraTexture", "draw", maskShape, Black, "alpha", "none",
                   lightRef, ref, 0)>>
            \o unmaskWithPenumbras("antumbraTexture", "add", result.penumbras, lightRef, ref)
            \o <<Draw("lightTexture", "draw", "antumbraTexture", White, "multiply", "none",
                      lightRef, ref, 0)>>
        umbra ==
            <<Draw("lightTexture", "draw", "shadowQuad", Black, "alpha", "none",
                   lightRef, ref, 0)>>
            \o unmaskWithPenumbras("lightTexture", "multiply", result.penumbras,
                                   lightRef, ref)
    IN  IF result.loops THEN [frame EXCEPT !.hang = TRUE]
        ELSE IF SkipsCollider(result) THEN SkipCollider(frame, lightRef, ref)
        ELSE Drawn(WithCollider(frame, ref, ColliderSetColor(lc, Black)),
                   silhouette
                   \o (IF rayIntersect(as, result.outerBoundaryVectors[1],
                                       bs, result.outerBoundaryVectors[2])
                       THEN antumbra ELSE umbra))

\* One pass of the loop that masks the light with the shadow of a collider.
MaskCollider(frame, light, lightRef, lightTransf, lc, ref) ==
    IF ~lc.mActive THEN frame
    ELSE CastShadow(frame, lightRef, ref, lc,
                    Combine(transf[ref[1]], ShapeTransform(lc)),
                    getPenumbrasPoint(light, lc, transf[ref[1]], lightTransf))

RECURSIVE MaskColliders(_, _, _, _, _, _)
MaskColliders(frame, light, lightRef, lightTransf, colliders, i) ==
    IF i > Len(colliders) \/ frame.hang THEN frame
    ELSE MaskColliders(MaskCollider(frame, light, lightRef, lightTransf,
                                    ColliderOf(frame, colliders[i]), colliders[i]),
                       light, lightRef, lightTransf, colliders, i + 1)

\* The shape drawn in black whatever the flag of the collider says.
DrawShapeBlack(frame, lightRef, collider, ref, color) ==
    Drawn(WithCollider(frame, ref, ColliderSetColor(collider, Black)),
          <<Draw("lightTexture", "draw", "shape", Black, "alpha",
                 "lightOverShapeShader", lightRef, ref, 0)>>)

\* The shape drawn with the colour it has, setColor left out.
DrawShapeAsIs(frame, lightRef, collider, ref, color) ==
    Drawn(frame,
          <<Draw("lightTexture", "draw", "shape", collider.mShape.fillColor, "alpha",
                 "lightOverShapeShader", lightRef, ref, 0)>>)

\* One pass of the second loop: the collider drawn with the light over shape
\* shader, white if the light is to show over it, black otherwise.
DrawShape(frame, lightRef, collider, ref, color) ==
    Drawn(WithCollider(frame, ref, ColliderSetColor(collider, color)),
          <<Draw("lightTexture", "draw", "shape", color, "alpha",
                 "lightOverShapeShader", lightRef, ref, 0)>>)

RECURSIVE DrawShapes(_, _, _, _)
DrawShapes(frame, lightRef, colliders, i) ==
    IF i > Len(colliders) \/ frame.hang THEN frame
    ELSE DrawShapes(
             DrawShape(frame, lightRef, ColliderOf(frame, colliders[i]), colliders[i],
                       IF ColliderOf(frame, colliders[i]).mLightOverShape
                       THEN White ELSE Black),
             lightRef, colliders, i + 1)

\* PointLight::render: the emission of the light, the shadows of the
\* colliders, the shapes of the colliders.  A call of getPenumbrasPoint that
\* never returns leaves the frame hanging, and nothing more is drawn.
PointLightRender(frame, light, lightRef, colliders, lightTransf) ==
    DrawShapes(
        MaskColliders(
            Drawn(frame,
                  <<Draw("lightTexture", "clear", "", Black, "none", "none",
                         lightRef, NoRef, 0),
                    Draw("lightTexture", "draw", "sprite", light.mSprite.color, "alpha",
                         "none", lightRef, NoRef, 0)>>),
            light, lightRef, lightTransf, colliders, 1),
        lightRef, colliders, 1)

\* sf::Transform::transformRect for a rectangle in units of 1/den.
TransformRect(t, rect, den) ==
    LET x1 == t.sx * rect.left + den * t.tx
        x2 == t.sx * (rect.left + rect.width) + den * t.tx
        y1 == t.sy * rect.top + den * t.ty
        y2 == t.sy * (rect.top + rect.height) + den * t.ty
    IN  Rect(Min({x1, x2}), Min({y1, y2}), Abs(x2 - x1), Abs(y2 - y1))

\* sf::Rect::intersects: the overlap has a positive width and height.
Intersects(a, b) ==
    /\ Max({a.left, b.left}) < Min({a.left + a.width, b.left + b.width})
    /\ Max({a.top, b.top}) < Min({a.top + a.height, b.top + b.height})

\* mQuadTree->retrieve: the tree hands out the entities of every node the
\* rectangle touches; the world of the model is one node.
Retrieve(rect) == AllEntities

\* The test of renderLight left out: every collider is in range.
InRangeAlways(frame, light, lightTransf, ref) == TRUE

\* colliderBounds.intersects(lightBounds), in units of 1/BoxDen.
InRange(frame, light, lightTransf, ref) ==
    LET box == ColliderBoundingBox(ColliderOf(frame, ref))
        colliderBounds ==
            TransformRect(transf[ref[1]],
                          Rect(BoxDen * box.left, BoxDen * box.top,
                               BoxDen * box.width, BoxDen * box.height), BoxDen)
        lightBounds == TransformRect(lightTransf, LightBoundingBox(light), BoxDen)
    IN  Intersects(colliderBounds, lightBounds)

\* iterate<Transform, ShadowEmitter> and iterate<Transform, MultiShadowEmitter>
\* over a list of entities: the colliders in the order they are visited.
ShadowRefs(entities) ==
    Concat([k \in 1..Len(entities) |->
               IF shadow[entities[k]] # NoComponent THEN << <<entities[k], 0>> >>
               ELSE <<>>])
    \o Concat([k \in 1..Len(entities) |->
               [i \in 1..Len(multiShadow[entities[k]]) |-> <<entities[k], i>>]])

\* iterate<Transform, LightEmitter> and iterate<Transform, MultiLightEmitter>.
LightRefs(entities) ==
    Concat([k \in 1..Len(entities) |->
               IF emitter[entities[k]] # NoComponent THEN << <<entities[k], 0>> >>
               ELSE <<>>])
    \o Concat([k \in 1..Len(entities) |->
               [i \in 1..Len(multiEmitter[entities[k]]) |-> <<entities[k], i>>]])

\* The list of colliders renderLight hands to PointLight::render.
CollidersInRange(frame, lightRef) ==
    LET light == LightAt(lightRef[1], lightRef[2])
        lightTransf == transf[lightRef[1]]
        bounds == LightBoundingBox(light)
        transformedUpperBound ==
            <<lightTransf.sx * bounds.left + BoxDen * lightTransf.tx,
              lightTransf.sy * bounds.top + BoxDen * lightTransf.ty>>
        shadowsPull ==
            Retrieve(Rect(transformedUpperBound[1], transformedUpperBound[2],
                          bounds.width, bounds.height))
        refs == ShadowRefs(shadowsPull)
    IN  Concat([k \in 1..Len(refs) |->
                   IF InRange(frame, light, lightTransf, refs[k]) THEN <<refs[k]>>
                   ELSE <<>>])

\* The draw of the light texture onto the composition texture, with the
\* blend mode the states come with.
AccumulateAlpha(lightRef) ==
    Draw("compositionTexture", "draw", "lightTexture", White, "alpha", "none",
         lightRef, NoRef, 0)

\* compoRenderStates.blendMode = sf::BlendAdd;
\* mCompositionTexture.draw(mDisplaySprite, compoRenderStates).
Accumulate(lightRef) ==
    Draw("compositionTexture", "draw", "lightTexture", White, "add", "none",
         lightRef, NoRef, 0)

\* The end of renderLight: the light texture added to the composition
\* texture.
Accumulated(frame, lightRef) ==
    IF frame.hang THEN frame ELSE Drawn(frame, <<Accumulate(lightRef)>>)

\* LightSystem::renderLight.
renderLight(frame, lightRef) ==
    Accumulated(PointLightRender(frame, LightAt(lightRef[1], lightRef[2]), lightRef,
                                 CollidersInRange(frame, lightRef), transf[lightRef[1]]),
                lightRef)

RECURSIVE RenderLights(_, _, _)
RenderLights(frame, lights, i) ==
    IF i > Len(lights) \/ frame.hang THEN frame
    ELSE RenderLights(renderLight(frame, lights[i]), lights, i + 1)

\* The end of LightSystem::render: the composition texture multiplied onto
\* the target.
Presented(frame) ==
    IF frame.hang THEN frame
    ELSE Drawn(frame, <<Draw("target", "draw", "compositionTexture", White,
                             "multiply", "none", NoRef, NoRef, 0)>>)

\* mCompositionTexture.clear(mAmbientColor): the start of a frame.
Cleared ==
    [shadow |-> shadow, multiShadow |-> multiShadow, hang |-> FALSE,
     draws |-> <<Draw("compositionTexture", "clear", "", mAmbientColor,
                      "none", "none", NoRef, NoRef, 0)>>]

\* LightSystem::render(pull, target, states).
render(pull) ==
    /\ ncalls < MaxRenderOps
    /\ lastOp # "hang"
    /\ \E frame \in {Presented(RenderLights(Cleared, LightRefs(pull), 1))} :
           /\ draws' = frame.draws
           /\ shadow' = frame.shadow
           /\ multiShadow' = frame.multiShadow
           /\ lastOp' = IF frame.hang THEN "hang" ELSE "render"
    /\ lastArgs' = pull
    /\ ncalls' = ncalls + 1
    /\ UNCHANGED <<emitter, multiEmitter, transf, calls, signals, evaluation>>
    /\ UNCHANGED <<ambVars, flickVars, affVars>>

(***************************************************************************)
(* Specifications.                                                         *)
(***************************************************************************)
\* LightSystem::LightSystem(): white ambient colour, zero carry.
InitAmbient ==
    /\ IdleAmbient
    /\ lastOp = "init"
    /\ ncalls = 0
    /\ IdleFlicker
    /\ IdleAffectors
    /\ IdleLog
    /\ IdleWorld
    /\ IdleRender

NextAmbient ==
    \/ \E c \in Colors : setAmbientColor(c)
    \/ \E c \in Colors, s \in Strengths : interpolateAmbientLight(c, s)

SpecAmbient == InitAmbient /\ [][NextAmbient]_vars

\* Repeated calls with one target and one strength, from any ambient colour
\* with zero carry.
InitConverge ==
    /\ mAmbientColor \in ConvergeColors
    /\ mColorShift = [x |-> 0, y |-> 0, z |-> 0]
    /\ lastTarget \in ConvergeColors
    /\ lastStrength \in Strengths
    /\ lastOp = "init"
    /\ ncalls = 0
    /\ IdleFlicker
    /\ IdleAffectors
    /\ IdleLog
    /\ IdleWorld
    /\ IdleRender

RepeatInterpolate ==
    /\ ncalls < MaxRepeat
    /\ interpolateAmbientLightStep(lastTarget, lastStrength)

SpecConverge == InitConverge /\ [][RepeatInterpolate]_vars

\* A light with a LightFlickering affector, ticked by LightSystem::update.
InitLightFlickering ==
    /\ IdleAmbient
    /\ lastOp = "init"
    /\ ncalls = 0
    /\ spriteScale = [x |-> ScaleDen, y |-> ScaleDen]
    /\ initialScale = spriteScale
    /\ \E p \in Periods, s \in FlickerStrengths : flick = NewLightFlickering(p, s)
    /\ rflick = NewRandomizedFlickering(4, 1, 2)
    /\ IdleAffectors
    /\ IdleLog
    /\ IdleWorld
    /\ IdleRender

NextLightFlickering == \E d \in 0..MaxDelta, a \in 0..MaxAdvance : FlickerTick(d, a)

SpecLightFlickering == InitLightFlickering /\ [][NextLightFlickering]_vars

\* A light with a RandomizedFlickering affector.
InitRandomizedFlickering ==
    /\ IdleAmbient
    /\ lastOp = "init"
    /\ ncalls = 0
    /\ spriteScale = [x |-> ScaleDen, y |-> ScaleDen]
    /\ initialScale = spriteScale
    /\ flick = NewLightFlickering(2, 1)
    /\ \E p \in BasePeriods, s \in FlickerStrengths, f \in RandomFactors :
          rflick = NewRandomizedFlickering(p, s, f)
    /\ IdleAffectors
    /\ IdleLog
    /\ IdleWorld
    /\ IdleRender

NextRandomizedFlickering ==
    \E d \in 0..MaxDelta, a \in 0..MaxAdvance, f \in RandomFactors : RandomizedTick(d, a, f)

SpecRandomizedFlickering == InitRandomizedFlickering /\ [][NextRandomizedFlickering]_vars

\* Affectors as constructed, then any setActive, setAffectorCallback, update.
InitUpdate ==
    /\ IdleAmbient
    /\ lastOp = "init"
    /\ ncalls = 0
    /\ IdleFlicker
    /\ IdleAffectors
    /\ IdleLog
    /\ IdleWorld
    /\ IdleRender

NextUpdate ==
    \/ \E e \in Entities, b \in BOOLEAN : AffectorSetActive(e, b)
    \/ \E e \in Entities, i \in 1..MultiCount, b \in BOOLEAN : MultiAffectorSetActive(e, i, b)
    \/ \E e \in Entities, cb \in Callbacks : setAffectorCallback1(e, cb)
    \/ \E e \in Entities, l \in 1..MultiCount, cb \in Callbacks : setAffectorCallback2(e, l, cb)
    \/ \E e \in Entities, l \in 1..MultiCount, i \in 1..MultiCount, cb \in Callbacks :
          setAffectorCallback3(e, l, i, cb)
    \/ \E es \in EntityLists, d \in FrameDeltas : update(es, d)

SpecUpdate == InitUpdate /\ [][NextUpdate]_vars

\* Lights and colliders as constructed, then any setter or move.
InitSetters ==
    /\ IdleAmbient
    /\ lastOp = "init"
    /\ ncalls = 0
    /\ IdleFlicker
    /\ IdleAffectors
    /\ IdleLog
    /\ IdleWorld
    /\ IdleRender

NextSetters ==
    \/ \E e \in Entities, p \in LightPositions : setLocalLightPosition(e, p)
    \/ \E e \in Entities, p \in LightPositions, i \in 1..MultiCount :
          setLocalLightPositionIndexed(e, p, i)
    \/ \E e \in Entities, s \in LightScales : setLightScale(e, s)
    \/ \E e \in Entities, s \in LightScales, i \in 1..MultiCount :
          setLightScaleIndexed(e, s, i)
    \/ \E e \in Entities, c \in LightColors : setLightColor(e, c)
    \/ \E e \in Entities, c \in LightColors, i \in 1..MultiCount :
          setLightColorIndexed(e, c, i)
    \/ \E e \in Entities, p \in ColliderPoints, i \in 1..MaxPoints : setPoint(e, p, i)
    \/ \E e \in Entities, p \in ColliderPoints, i \in 1..MaxPoints, c \in 1..MultiCount :
          setPointIndexed(e, p, i, c)
    \/ \E e \in Entities, ps \in PointLists : setPoints(e, ps)
    \/ \E e \in Entities, ps \in PointLists, c \in 1..MultiCount : setPointsIndexed(e, ps, c)
    \/ \E e \in Entities, v \in MoveVectors : moveLights(e, v)
    \/ \E e \in Entities, v \in MoveVectors : moveLightColliders(e, v)

SpecSetters == InitSetters /\ [][NextSetters]_vars

\* Colliders that have point lists already, as setPoints leaves them: four
\* points on entity 1, three on the other single colliders, two on the first
\* member of a multi collider, none on the other members.
FourPoints == << <<-2, -1>>, <<2, -1>>, <<2, 1>>, <<-2, 1>> >>
ThreePoints == << <<0, 0>>, <<4, 0>>, <<0, 3>> >>
TwoPoints == << <<1, 1>>, <<3, 2>> >>

InitPoints ==
    /\ IdleAmbient
    /\ lastOp = "init"
    /\ ncalls = 0
    /\ IdleFlicker
    /\ IdleAffectors
    /\ IdleLog
    /\ IdleRender
    /\ emitter = NewEmitters
    /\ multiEmitter = NewMultiEmitters
    /\ transf = NewTransforms
    /\ shadow = [e \in Entities |->
                    IF HasShadowEmitter(e)
                    THEN <<ColliderSetPoints(NewLightCollider,
                                             IF e = 1 THEN FourPoints ELSE ThreePoints)>>
                    ELSE NoComponent]
    /\ multiShadow = [e \in Entities |->
                         IF HasMultiShadowEmitter(e)
                         THEN [i \in 1..MultiCount |->
                                  ColliderSetPoints(NewLightCollider,
                                                    IF i = 1 THEN TwoPoints ELSE <<>>)]
                         ELSE NoComponent]

NextPoints ==
    \/ \E e \in Entities, p \in ColliderPoints, i \in 1..MaxPoints : setPoint(e, p, i)
    \/ \E e \in Entities, p \in ColliderPoints, i \in 1..MaxPoints, c \in 1..MultiCount :
          setPointIndexed(e, p, i, c)
    \/ \E e \in Entities, ps \in PointLists : setPoints(e, ps)
    \/ \E e \in Entities, ps \in PointLists, c \in 1..MultiCount : setPointsIndexed(e, ps, c)

SpecPoints == InitPoints /\ [][NextPoints]_vars

\* A call of getPenumbrasPoint for one light and one collider of the world,
\* as PointLight::render makes it: with empty output lists, the transform of
\* the collider's entity and the transform of the light's entity.
HasLight(e, index) ==
    IF index = 0 THEN emitter[e] # NoComponent ELSE index \in DOMAIN multiEmitter[e]
HasCollider(e, index) ==
    IF index = 0 THEN shadow[e] # NoComponent ELSE index \in DOMAIN multiShadow[e]

\* Penumbra penumbra; leaves the fields without a value, and no line of
\* getPenumbrasPoint writes distance: each wedge of the list comes back with
\* whatever the memory of the local held, one of the values of Indeterminate.
Indeterminate == {0, 1}

WithDistance(penumbra, distance) ==
    [source |-> penumbra.source,
     lightEdge |-> penumbra.lightEdge,
     darkEdge |-> penumbra.darkEdge,
     lightBrightness |-> penumbra.lightBrightness,
     darkBrightness |-> penumbra.darkBrightness,
     distance |-> distance]

Returned(result, distances) ==
    [result EXCEPT !.penumbras =
        [i \in 1..Len(result.penumbras) |-> WithDistance(result.penumbras[i], distances[i])]]

\* One call of getPenumbrasPoint with empty output lists, for the light
\* (le, li) and the collider (ce, ci).
Evaluate(le, li, ce, ci) ==
    /\ ncalls < MaxEvaluations
    /\ lastOp # "hang"
    /\ HasLight(le, li)
    /\ HasCollider(ce, ci)
    /\ \E result \in {getPenumbrasPoint(LightAt(le, li), ColliderAt(ce, ci),
                                         transf[ce], transf[le])} :
          /\ \E distances \in [1..Len(result.penumbras) -> Indeterminate] :
                evaluation' = [light |-> <<le, li>>, collider |-> <<ce, ci>>,
                               result |-> Returned(result, distances)]
          /\ lastOp' = IF result.loops THEN "hang" ELSE "getPenumbrasPoint"
    /\ lastArgs' = <<>>
    /\ ncalls' = ncalls + 1
    /\ UNCHANGED <<worldVars, calls, signals, draws>>
    /\ UNCHANGED <<ambVars, flickVars, affVars>>

\* The call with lists that hold the boundaries and wedges of an earlier
\* call, cleared where the collider has no points.
getPenumbrasPointCleared(lists, light, collider, colliderTransform, lightTransform) ==
    IF Len(collider.mShape.points) = 0 THEN NoBoundaries
    ELSE getPenumbrasPoint(light, collider, colliderTransform, lightTransform)

\* getPenumbrasPoint with the five output lists as the caller hands them in:
\* if (numPoints == 0) return; comes before the first write of a list.
getPenumbrasPointInto(lists, light, collider, colliderTransform, lightTransform) ==
    IF Len(collider.mShape.points) = 0 THEN lists
    ELSE getPenumbrasPoint(light, collider, colliderTransform, lightTransform)

\* One call of getPenumbrasPoint for a collider without points, with the
\* lists as the call before has left them; the lists handed in are kept as
\* the arguments of the call.  It may follow the last call with empty lists.
EvaluateInto(le, li, ce, ci) ==
    /\ ncalls <= MaxEvaluations
    /\ lastOp = "getPenumbrasPoint"
    /\ HasLight(le, li)
    /\ HasCollider(ce, ci)
    /\ Len(ColliderAt(ce, ci).mShape.points) = 0
    /\ evaluation' = [light |-> <<le, li>>, collider |-> <<ce, ci>>,
                      result |-> getPenumbrasPointInto(evaluation.result, LightAt(le, li),
                                                       ColliderAt(ce, ci), transf[ce],
                                                       transf[le])]
    /\ lastOp' = "getPenumbrasPointInto"
    /\ lastArgs' = evaluation.result
    /\ ncalls' = ncalls + 1
    /\ UNCHANGED <<worldVars, calls, signals, draws>>
    /\ UNCHANGED <<ambVars, flickVars, affVars>>

\* Inputs of the geometry: convex polygons in both orientations, light
\* positions inside, near and outside of them, transforms of the entities.
ConvexPolygons ==
    {<< <<-8, -8>>, <<-8, -4>>, <<-4, 0>>, <<4, 4>> >>,
     << <<-8, -8>>, <<-4, -8>>, <<-4, 4>>, <<-8, 8>> >>,
     << <<-2, -2>>, <<2, -2>>, <<2, 2>>, <<-2, 2>> >>,
     << <<-2, 2>>, <<2, 2>>, <<2, -2>>, <<-2, -2>> >>,
     << <<0, 0>>, <<4, 0>>, <<0, 3>> >>,
     << <<-8, -8>>, <<-8, -4>>, <<0, -4>>, <<0, -8>> >>}
GeometryLightPositions ==
    {<<0, 0>>, <<5, 0>>, <<-10, 0>>, <<-5, -5>>, <<14, 0>>, <<0, -14>>, <<12, 9>>,
     <<-6, 13>>}
GeometryTransforms == {Identity, Transform(1, 1, 2, -1), Transform(2, 2, 0, 0)}

\* A light moved by setLocalLightPosition, a collider filled by setPoints on
\* an entity with its own transform.
InitGeometry ==
    /\ IdleAmbient
    /\ lastOp = "init"
    /\ ncalls = 0
    /\ IdleFlicker
    /\ IdleAffectors
    /\ IdleLog
    /\ IdleRender
    /\ \E position \in GeometryLightPositions :
          emitter = [NewEmitters EXCEPT ![1][1].mSprite.position = position]
    /\ multiEmitter = NewMultiEmitters
    /\ \E points \in ConvexPolygons :
          shadow = [NewShadows EXCEPT ![3][1] = ColliderSetPoints(@, points)]
    /\ multiShadow = NewMultiShadows
    /\ \E t \in GeometryTransforms : transf = [NewTransforms EXCEPT ![3] = t]

NextGeometry ==
    \E le \in Entities, li \in 0..MultiCount, ce \in Entities, ci \in 0..MultiCount :
        Evaluate(le, li, ce, ci)

SpecGeometry == InitGeometry /\ [][NextGeometry]_vars

\* The two scans of getPenumbrasPoint (Light.cpp:420-452) on their own: the
\* facing lists the loop of Light.cpp:379-418 has filled are the input, the
\* boundary indices and windings pushed the output.  A vertex that faces the
\* light by the both-edges test faces it by the one-edge test as well
\* (Light.cpp:416-417).
FacingLists ==
    {pair \in UNION {[1..n -> BOOLEAN] \X [1..n -> BOOLEAN] : n \in 1..MaxFacing} :
        \A i \in DOMAIN pair[1] : pair[1][i] => pair[2][i]}

InitScan ==
    /\ IdleAmbient
    /\ lastOp = "init"
    /\ ncalls = 0
    /\ IdleFlicker
    /\ IdleAffectors
    /\ IdleWorld
    /\ IdleRender
    /\ calls = <<>>
    /\ \E pair \in FacingLists :
          lastArgs = [facingFrontBothEdges |-> pair[1], facingFrontOneEdge |-> pair[2]]

Scan ==
    /\ lastOp = "init"
    /\ evaluation' = [inner |-> BoundaryScan(lastArgs.facingFrontBothEdges),
                      outer |-> BoundaryScan(lastArgs.facingFrontOneEdge)]
    /\ lastOp' = "scan"
    /\ ncalls' = ncalls + 1
    /\ UNCHANGED <<worldVars, lastArgs, calls, signals, draws>>
    /\ UNCHANGED <<ambVars, flickVars, affVars>>

SpecScan == InitScan /\ [][Scan]_vars

\* Inputs of a frame: the light of entity 1 moved and switched, the colliders
\* of entities 1 and 3 and the first collider of entity 2 filled with points.
RenderLightPositions == {<<0, 0>>, <<-5, -5>>}
RenderPolygons ==
    {<<>>,
     << <<-7, -7>>, <<-5, -7>>, <<-5, -5>>, <<-7, -5>> >>,
     << <<-8, -8>>, <<-8, -4>>, <<0, -4>>, <<0, -8>> >>,
     << <<-10, -1>>, <<-8, -1>>, <<-8, 1>>, <<-10, 1>> >>,
     << <<-6, 1>>, <<-4, 1>>, <<-4, -1>>, <<-6, -1>> >>}
SecondPolygon == << <<8, -1>>, <<10, -1>>, <<10, 1>>, <<8, 1>> >>
MemberPolygon == << <<3, 4>>, <<7, 4>>, <<3, 7>> >>
PullLists == {<<>>, <<2>>, AllEntities, Reversed(AllEntities)}

\* The world before a frame, as the setters, setActive and
\* setLightOverShape leave it.
InitRender ==
    /\ mAmbientColor \in {White, Color(252, 4, 128)}
    /\ mColorShift = [x |-> 0, y |-> 0, z |-> 0]
    /\ lastTarget = NoColor
    /\ lastStrength = 1
    /\ lastOp = "init"
    /\ ncalls = 0
    /\ IdleFlicker
    /\ IdleAffectors
    /\ IdleLog
    /\ IdleRender
    /\ \E position \in RenderLightPositions, active \in BOOLEAN :
          emitter = [NewEmitters EXCEPT ![1][1].mSprite.position = position,
                                        ![1][1].mActive = active]
    /\ \E active \in BOOLEAN :
          multiEmitter = [NewMultiEmitters EXCEPT ![2][1].mActive = active]
    /\ \E points \in RenderPolygons, over \in BOOLEAN, active \in BOOLEAN :
          shadow = [NewShadows EXCEPT
                       ![1][1] = ColliderSetPoints(@, points),
                       ![3][1] = [ColliderSetPoints(@, SecondPolygon) EXCEPT
                                     !.mLightOverShape = over, !.mActive = active]]
    /\ multiShadow = [NewMultiShadows EXCEPT ![2][1] = ColliderSetPoints(@, MemberPolygon)]
    /\ transf = NewTransforms

NextRender == \E pull \in PullLists : render(pull)

SpecRender == InitRender /\ [][NextRender]_vars

\* Frames and single calls of getPenumbrasPoint over one world: every light
\* and collider active, the light of entity 1 at (-5,-5), its collider
\* without points or the square to the left of the light.
InitRange ==
    /\ InitRender
    /\ mAmbientColor = White
    /\ emitter[1][1].mActive
    /\ emitter[1][1].mSprite.position = <<-5, -5>>
    /\ Len(shadow[1][1].mShape.points) = 0 \/ shadow[1][1].mShape.points[1] = <<-10, -1>>
    /\ multiEmitter[2][1].mActive
    /\ shadow[3][1].mActive
    /\ ~shadow[3][1].mLightOverShape

NextRange ==
    \/ \E pull \in PullLists : render(pull)
    \/ \E le \in Entities, li \in 0..MultiCount, ce \in Entities, ci \in 0..MultiCount :
          Evaluate(le, li, ce, ci)
    \/ \E le \in Entities, li \in 0..MultiCount, ce \in Entities, ci \in 0..MultiCount :
          EvaluateInto(le, li, ce, ci)

SpecRange == InitRange /\ [][NextRange]_vars

(***************************************************************************)
(* Claims.                                                                 *)
(***************************************************************************)
ChannelNear(c, t) == Abs(c - t) <= 1

AmbientNear(target) ==
    /\ ChannelNear(mAmbientColor.r, target.r)
    /\ ChannelNear(mAmbientColor.g, target.g)
    /\ ChannelNear(mAmbientColor.b, target.b)

\* C1: repeated calls of interpolateAmbientLight with one target and one
\* strength > 0, from zero carry, reach a state where every channel is within
\* one unit of the target and stay there from then on: once every channel is
\* within one unit of the target, a further call leaves every channel within
\* one unit of it.
C1_ReachesAndStays == [][AmbientNear(lastTarget) => AmbientNear(lastTarget)']_vars

\* one call moved channel c to c1 by at most one unit, and did not carry a
\* channel that was at or short of target t more than one unit past it
ChannelStepWithinOne(c, c1, t) ==
    /\ Abs(c1 - c) <= 1
    /\ (c <= t => c1 <= t + 1)
    /\ (c >= t => c1 >= t - 1)

\* C2: one call of interpolateAmbientLight changes each ambient channel by at
\* most one unit, so a channel at or short of the target before the call is
\* at most one unit past the target after it.
C2_StepWithinOne ==
    [][(lastOp' = "interpolateAmbientLight" /\ ncalls' = ncalls + 1) =>
          /\ ChannelStepWithinOne(mAmbientColor.r, mAmbientColor'.r, lastTarget'.r)
          /\ ChannelStepWithinOne(mAmbientColor.g, mAmbientColor'.g, lastTarget'.g)
          /\ ChannelStepWithinOne(mAmbientColor.b, mAmbientColor'.b, lastTarget'.b)]_vars

ScaleWithinInitial ==
    /\ spriteScale.x <= initialScale.x
    /\ spriteScale.y <= initialScale.y

\* C3: after every tick of LightFlickering the sprite scale (x and y) is at
\* most its value before the first tick.
C3_FlickerNeverGrows == (lastOp = "LightFlickering") => ScaleWithinInitial

\* C4: after every tick of RandomizedFlickering the sprite scale (x and y) is
\* at most its value before the first tick.
C4_RandomizedNeverGrows == (lastOp = "RandomizedFlickering") => ScaleWithinInitial

\* the affector of entity e at index i: 0 is its LightAffector, i >= 1 member
\* i of its MultiLightAffector; a sequence of length 0 or 1
AffectorAt(e, i) ==
    IF i = 0 THEN affector[e]
    ELSE IF i \in DOMAIN multiAffector[e] THEN <<multiAffector[e][i]>> ELSE <<>>

InList(e, es) == \E k \in DOMAIN es : es[k] = e

InvocationsOf(e, i) == {k \in DOMAIN calls : calls[k].entity = e /\ calls[k].index = i}

\* C5: update(entities, delta) invokes the callback of every affector of the
\* listed entities (single or member of a MultiLightAffector) exactly once,
\* with the given delta and the emitter bound by setAffectorCallback, when the
\* affector is active and has a callback; it invokes no other affector.
C5_UpdateInvokesActiveOnce ==
    (lastOp = "update") =>
        \A e \in Entities, i \in 0..MultiCount :
            LET a == AffectorAt(e, i)
                due == /\ InList(e, lastArgs[1])
                       /\ a # <<>>
                       /\ a[1].mActive
                       /\ a[1].mCallback # Null
            IN  /\ Cardinality(InvocationsOf(e, i)) = (IF due THEN 1 ELSE 0)
                /\ \A k \in InvocationsOf(e, i) :
                      /\ calls[k].delta = lastArgs[2]
                      /\ calls[k].callback = a[1].mCallback
                      /\ calls[k].emitter = a[1].mEmitter
                      /\ calls[k].emitter # NullEmitter

\* an update that invoked a member of a MultiLightAffector and skipped an
\* inactive affector that has a callback and an affector whose callback was
\* never set
C5_Witness ==
    /\ lastOp = "update"
    /\ \E k \in DOMAIN calls : calls[k].index > 0
    /\ \E e \in Entities, i \in 0..MultiCount :
          /\ InList(e, lastArgs[1])
          /\ AffectorAt(e, i) # <<>>
          /\ ~AffectorAt(e, i)[1].mActive
          /\ AffectorAt(e, i)[1].mCallback # Null
    /\ \E e \in Entities, i \in 0..MultiCount :
          /\ InList(e, lastArgs[1])
          /\ AffectorAt(e, i) # <<>>
          /\ AffectorAt(e, i)[1].mActive
          /\ AffectorAt(e, i)[1].mCallback = Null


\* A call of LightSystem::render has returned; lastArgs is its pull list and
\* draws the frame it made.
Rendered == lastOp = "render"

IsAccumulation(d) == d.target = "compositionTexture" /\ d.op = "draw"

\* The light texture is cleared and the sprite of light l drawn into it at
\* some point before draw i, with no draw onto the composition texture in
\* between.
RedrawnBefore(l, i) ==
    \E j \in 1..(i - 1), s \in 1..(i - 1) :
        /\ j < s
        /\ draws[j].target = "lightTexture" /\ draws[j].op = "clear" /\ draws[j].light = l
        /\ draws[s].target = "lightTexture" /\ draws[s].what = "sprite" /\ draws[s].light = l
        /\ \A m \in j..(i - 1) : ~IsAccumulation(draws[m])

\* C6: in a frame of LightSystem::render the composition texture is cleared
\* to the ambient colour first and never again; every light of the pull list
\* is added to the composition texture exactly once, with additive blend,
\* after the light texture has been cleared and the light drawn into it; the
\* composition texture is drawn onto the target exactly once, with
\* multiplicative blend, as the last draw of the frame.
C6_FrameOrder ==
    Rendered =>
        /\ draws[1] = Draw("compositionTexture", "clear", "", mAmbientColor,
                           "none", "none", NoRef, NoRef, 0)
        /\ \A i \in 2..Len(draws) :
              ~(draws[i].target = "compositionTexture" /\ draws[i].op = "clear")
        /\ \A k \in 1..Len(LightRefs(lastArgs)) :
              \E i \in 1..Len(draws) :
                  /\ {m \in 1..Len(draws) : /\ IsAccumulation(draws[m])
                                            /\ draws[m].light = LightRefs(lastArgs)[k]} = {i}
                  /\ draws[i].blend = "add"
                  /\ draws[i].what = "lightTexture"
                  /\ RedrawnBefore(LightRefs(lastArgs)[k], i)
        /\ \A i \in 1..Len(draws) :
              IsAccumulation(draws[i]) =>
                  \E k \in 1..Len(LightRefs(lastArgs)) : draws[i].light = LightRefs(lastArgs)[k]
        /\ {i \in 1..Len(draws) : draws[i].target = "target"} = {Len(draws)}
        /\ draws[Len(draws)].op = "draw"
        /\ draws[Len(draws)].what = "compositionTexture"
        /\ draws[Len(draws)].blend = "multiply"

\* A frame over a coloured ambient light with three lights, one of them
\* casting a shadow quad.
C6_Witness ==
    /\ Rendered
    /\ mAmbientColor # White
    /\ Len(LightRefs(lastArgs)) >= 3
    /\ \E i \in 1..Len(draws) : draws[i].what = "shadowQuad"
    /\ Cardinality({i \in 1..Len(draws) : IsAccumulation(draws[i])}) >= 3

\* C7: a frame of LightSystem::render holds no clear and no draw for a light
\* whose active flag is false: such a light is not rendered and not added to
\* the composition texture.
C7_OnlyActiveLightsRendered ==
    Rendered =>
        \A i \in 1..Len(draws) :
            draws[i].light # NoRef =>
                LightAt(draws[i].light[1], draws[i].light[2]).mActive

LightSetters == {"setLocalLightPosition", "setLightScale", "setLightColor"}
ColliderSetters == {"setPoint", "setPoints"}

\* The one notification a setter is said to send: the entity of the call and
\* the bounding box, cast to whole numbers, the changed light or collider
\* has in the state after the call.
ExpectedSignal ==
    [entity |-> lastArgs.entity,
     rect |-> IF lastOp \in LightSetters
              THEN IntRect(LightBoundingBox(LightAt(lastArgs.entity, lastArgs.index)), BoxDen)
              ELSE IntRect(ColliderBoundingBox(ColliderAt(lastArgs.entity, lastArgs.index)), 1)]

\* The mutation of the last setter call is in the state.
MutationApplied ==
    /\ lastOp = "setLocalLightPosition" =>
          LightAt(lastArgs.entity, lastArgs.index).mSprite.position = lastArgs.value
    /\ lastOp = "setLightScale" =>
          LightAt(lastArgs.entity, lastArgs.index).mSprite.scale = lastArgs.value
    /\ lastOp = "setLightColor" =>
          LightAt(lastArgs.entity, lastArgs.index).mSprite.color = lastArgs.value
    /\ lastOp = "setPoint" =>
          ColliderAt(lastArgs.entity, lastArgs.index).mShape.points[lastArgs.value[1]]
              = lastArgs.value[2]
    /\ lastOp = "setPoints" =>
          ColliderAt(lastArgs.entity, lastArgs.index).mShape.points = lastArgs.value

\* C8 as stated: every setter for light position, light scale, light colour
\* and collider points, single or indexed, sends exactly one contents-changed
\* notification with the entity and the bounding box after the mutation.
C8_EverySetterNotifiesOnce ==
    (lastOp \in LightSetters \cup ColliderSetters) =>
        /\ MutationApplied
        /\ signals = <<ExpectedSignal>>

\* C8 amended: setLocalLightPosition, setLightScale, setPoint and setPoints,
\* single or indexed, send exactly one contents-changed notification with the
\* entity and the bounding box after the mutation; setLightColor, single or
\* indexed, applies the colour and sends no notification.
C8_GeometrySettersNotifyOnce ==
    /\ (lastOp \in (LightSetters \cup ColliderSetters) \ {"setLightColor"}) =>
          /\ MutationApplied
          /\ signals = <<ExpectedSignal>>
    /\ (lastOp = "setLightColor") =>
          /\ MutationApplied
          /\ signals = <<>>

\* A second call scales the second light of a multi emitter that an earlier
\* call has moved: the notification carries the truncated box of the moved
\* and scaled sprite.
C8_Witness ==
    /\ lastOp = "setLightScale"
    /\ lastArgs.index = 2
    /\ lastArgs.value = <<-(ScaleDen \div 8), ScaleDen \div 8>>
    /\ LightAt(lastArgs.entity, 2).mSprite.position = <<-3, 7>>
    /\ signals = <<[entity |-> lastArgs.entity, rect |-> Rect(-4, 5, 2, 2)]>>

\* The lists getPenumbrasPoint makes for light l and collider c of the frame,
\* and the list of colliders PointLight::render is given for l.
Boundaries(l, c) ==
    getPenumbrasPoint(LightAt(l[1], l[2]), ColliderAt(c[1], c[2]),
                      transf[c[1]], transf[l[1]])

FrameColliders(l) ==
    CollidersInRange([shadow |-> shadow, multiShadow |-> multiShadow], l)

\* getPenumbrasPoint returns for the active collider c with a count of inner
\* or of outer boundaries other than 2; it returns with both counts 2.
Degenerate(l, c) ==
    /\ ColliderAt(c[1], c[2]).mActive
    /\ ~Boundaries(l, c).loops
    /\ \/ Len(Boundaries(l, c).innerBoundaryIndices) # 2
       \/ Len(Boundaries(l, c).outerBoundaryIndices) # 2

Casting(l, c) ==
    /\ ColliderAt(c[1], c[2]).mActive
    /\ ~Boundaries(l, c).loops
    /\ Len(Boundaries(l, c).innerBoundaryIndices) = 2
    /\ Len(Boundaries(l, c).outerBoundaryIndices) = 2

\* The draws of the first loop of PointLight::render for a collider: the
\* silhouette, the shadow quad, the antumbra mask and its texture, the wedges.
MaskDraws(l, c) ==
    {i \in 1..Len(draws) :
        draws[i].light = l /\ draws[i].collider = c /\ draws[i].what # "shape"}

ShadowDrawn(l, c) ==
    \E i \in MaskDraws(l, c) : draws[i].what \in {"shadowQuad", "antumbraTexture"}

\* The frame gets to collider m of the list of light k of the pull list: it
\* has returned, or no call of getPenumbrasPoint before that one fails to
\* return.
Reached(k, m) ==
    Rendered \/ \A j \in 1..k :
        \A n \in 1..Len(FrameColliders(LightRefs(lastArgs)[j])) :
            (j < k \/ n < m) =>
                ~(/\ ColliderAt(FrameColliders(LightRefs(lastArgs)[j])[n][1],
                                FrameColliders(LightRefs(lastArgs)[j])[n][2]).mActive
                  /\ Boundaries(LightRefs(lastArgs)[j],
                                FrameColliders(LightRefs(lastArgs)[j])[n]).loops)

\* C9: when getPenumbrasPoint returns a count of inner or of outer boundaries
\* other than 2 for an active collider, the frame holds no silhouette, no
\* shadow quad, no antumbra mask and no penumbra wedge of that collider for
\* that light, and PointLight::render goes on with the list: every later
\* collider it gets to with counts 2 and 2 has its shadow drawn.
C9_DegenerateColliderSkipped ==
    lastOp \in {"render", "hang"} =>
        \A k \in 1..Len(LightRefs(lastArgs)) :
            \A m \in 1..Len(FrameColliders(LightRefs(lastArgs)[k])) :
                (/\ Reached(k, m)
                 /\ Degenerate(LightRefs(lastArgs)[k],
                               FrameColliders(LightRefs(lastArgs)[k])[m])) =>
                    /\ MaskDraws(LightRefs(lastArgs)[k],
                                 FrameColliders(LightRefs(lastArgs)[k])[m]) = {}
                    /\ \A n \in (m + 1)..Len(FrameColliders(LightRefs(lastArgs)[k])) :
                          (/\ Reached(k, n)
                           /\ Casting(LightRefs(lastArgs)[k],
                                      FrameColliders(LightRefs(lastArgs)[k])[n])) =>
                              ShadowDrawn(LightRefs(lastArgs)[k],
                                          FrameColliders(LightRefs(lastArgs)[k])[n])

\* The light of entity 1 finds no boundary on the collider of its own entity,
\* skips it and draws the antumbra of the collider of entity 3 after it.
C9_Witness ==
    /\ Rendered
    /\ lastArgs = AllEntities
    /\ FrameColliders(<<1, 0>>)[1] = <<1, 0>>
    /\ FrameColliders(<<1, 0>>)[2] = <<3, 0>>
    /\ Degenerate(<<1, 0>>, <<1, 0>>)
    /\ Boundaries(<<1, 0>>, <<1, 0>>).innerBoundaryIndices = <<>>
    /\ Casting(<<1, 0>>, <<3, 0>>)
    /\ MaskDraws(<<1, 0>>, <<1, 0>>) = {}
    /\ ShadowDrawn(<<1, 0>>, <<3, 0>>)

\* Every corner of the polygon turns the same way.
Turn(points, i) ==
    LET n == Len(points)
        a == points[i]
        b == points[(i % n) + 1]
        c == points[((i + 1) % n) + 1]
    IN  Sgn(Cross(Sub(b, a), Sub(c, b)))

IsConvexPolygon(points) ==
    /\ Len(points) >= 3
    /\ \A i \in DOMAIN points : Turn(points, i) = Turn(points, 1) /\ Turn(points, i) # 0

EvaluatedLight == LightAt(evaluation.light[1], evaluation.light[2])
EvaluatedCollider == ColliderAt(evaluation.collider[1], evaluation.collider[2])
EvaluatedConvex ==
    /\ evaluation # NoEvaluation
    /\ IsConvexPolygon(EvaluatedCollider.mShape.points)
InnerCount == Len(evaluation.result.innerBoundaryIndices)
OuterCount == Len(evaluation.result.outerBoundaryIndices)

\* C10 as stated: for a convex polygon and any light position
\* getPenumbrasPoint records exactly 0 or 2 inner boundary indices and exactly
\* 0 or 2 outer boundary indices, never 1, 3, 4 or more.
C10_ZeroOrTwoBoundaries ==
    EvaluatedConvex => (InnerCount \in {0, 2} /\ OuterCount \in {0, 2})

\* C10 amended: for a convex polygon and any light position the number of
\* inner boundary indices and the number of outer boundary indices are both
\* even and at most the number of points (0, 2, or for a light that overlaps
\* the polygon 4), never odd.
C10_EvenBoundaries ==
    EvaluatedConvex =>
        /\ InnerCount % 2 = 0
        /\ OuterCount % 2 = 0
        /\ InnerCount <= Len(EvaluatedCollider.mShape.points)
        /\ OuterCount <= Len(EvaluatedCollider.mShape.points)

\* The centre of the light is the centroid of a square that is smaller than
\* the radius of the light: no boundary of either kind is recorded.
C10_Witness ==
    /\ EvaluatedConvex
    /\ evaluation.light = <<1, 0>>
    /\ evaluation.collider = <<3, 0>>
    /\ transf[3] = Identity
    /\ getCastCenter(EvaluatedLight) = <<0, 0>>
    /\ EvaluatedCollider.mShape.points = << <<-2, -2>>, <<2, -2>>, <<2, 2>>, <<-2, 2>> >>
    /\ InnerCount = 0
    /\ OuterCount = 0

\* The bounds of collider c and the bounding box of light l, each moved by
\* the transform of its entity, do not intersect.
FarFromLight(l, c) ==
    LET box == ColliderBoundingBox(ColliderAt(c[1], c[2]))
    IN  ~Intersects(TransformRect(transf[c[1]],
                                  Rect(BoxDen * box.left, BoxDen * box.top,
                                       BoxDen * box.width, BoxDen * box.height), BoxDen),
                    TransformRect(transf[l[1]], LightBoundingBox(LightAt(l[1], l[2])),
                                  BoxDen))

ColliderRefs == {c \in Entities \X (0..MultiCount) : HasCollider(c[1], c[2])}

\* C11 as stated: for a convex polygon whose bounds do not intersect the
\* bounding box of the light, getPenumbrasPoint returns no inner and no outer
\* boundary index.
C11_FarPolygonNoBoundaries ==
    (EvaluatedConvex /\ FarFromLight(evaluation.light, evaluation.collider)) =>
        (InnerCount = 0 /\ OuterCount = 0)

\* C11 amended: a collider whose bounds do not intersect the bounding box of
\* a light is left out of the list renderLight gives to PointLight::render:
\* the frame holds no draw of that collider for that light.
C11_FarColliderNotRendered ==
    lastOp \in {"render", "hang"} =>
        \A k \in 1..Len(LightRefs(lastArgs)) :
            \A c \in ColliderRefs :
                FarFromLight(LightRefs(lastArgs)[k], c) =>
                    \A i \in 1..Len(draws) :
                        ~(draws[i].light = LightRefs(lastArgs)[k] /\ draws[i].collider = c)

\* The light of entity 1 at (-5,-5) is too far from the square of entity 3,
\* for which getPenumbrasPoint would find two inner and two outer
\* boundaries: the frame draws that square for the lights of entity 2 only.
C11_Witness ==
    /\ lastOp = "render"
    /\ lastArgs = AllEntities
    /\ FarFromLight(<<1, 0>>, <<3, 0>>)
    /\ IsConvexPolygon(ColliderAt(3, 0).mShape.points)
    /\ Len(getPenumbrasPoint(LightAt(1, 0), ColliderAt(3, 0), transf[3],
                             transf[1]).innerBoundaryIndices) = 2
    /\ \A i \in 1..Len(draws) : ~(draws[i].light = <<1, 0>> /\ draws[i].collider = <<3, 0>>)
    /\ \E i \in 1..Len(draws) : draws[i].light = <<2, 1>> /\ draws[i].collider = <<3, 0>>

\* A collider but for its fill colour.
Uncoloured(c) == ColliderSetColor(c, Black)

\* The colliders a frame handed to PointLight::render: the second loop draws
\* the shape of each of them.
Handed(ds) == {ds[i].collider : i \in {j \in 1..Len(ds) : ds[j].what = "shape"}}

\* C12 as stated: PointLight::render changes no state other than the render
\* targets: every collider (points, fill colour, lightOverShape and active
\* flags) and the light are the same after the call as before it.
C12_CollidersUnchanged ==
    [][/\ shadow' = shadow
       /\ multiShadow' = multiShadow
       /\ emitter' = emitter
       /\ multiEmitter' = multiEmitter]_vars

\* C12 amended: PointLight::render leaves the light and every collider's
\* points, position, lightOverShape and active flags as they were; of the
\* colliders it writes the fill colour only, which after the call is white
\* for a collider with lightOverShape and black for any other.
C12_OnlyFillColorWritten ==
    [][lastOp' \in {"render", "hang"} =>
          /\ emitter' = emitter
          /\ multiEmitter' = multiEmitter
          /\ \A c \in ColliderRefs :
                /\ Uncoloured(ColliderAt(c[1], c[2]))' = Uncoloured(ColliderAt(c[1], c[2]))
                /\ (lastOp' = "render" /\ c \in Handed(draws')) =>
                       ColliderAt(c[1], c[2])'.mShape.fillColor =
                           IF ColliderAt(c[1], c[2]).mLightOverShape THEN White ELSE Black]_vars

\* A frame has drawn the square of entity 3, a collider with lightOverShape
\* that was black before: it is white after the frame.
C12_Witness ==
    /\ lastOp = "render"
    /\ <<3, 0>> \in Handed(draws)
    /\ shadow[3][1].mLightOverShape
    /\ shadow[3][1].mShape.fillColor = White
    /\ shadow[3][1].mShape.points = SecondPolygon

\* What the first loop of PointLight::render draws for collider c under light
\* l after the silhouette: target, operation, shape, colour and blend mode of
\* each draw, in the order of the frame.
PathDraws(l, c) ==
    LET ds == SelectSeq(draws, LAMBDA d : /\ d.light = l /\ d.collider = c
                                          /\ d.what \notin {"shape", "silhouette"})
    IN  [i \in 1..Len(ds) |-> <<ds[i].target, ds[i].op, ds[i].what, ds[i].color, ds[i].blend>>]

Wedges(target, blend, n) == [i \in 1..n |-> <<target, "draw", "penumbra", White, blend>>]

AntumbraPath(mask, n) ==
    << <<"antumbraTexture", "clear", "", White, "none">>,
       <<"antumbraTexture", "draw", mask, Black, "alpha">> >>
    \o Wedges("antumbraTexture", "add", n)
    \o << <<"lightTexture", "draw", "antumbraTexture", White, "multiply">> >>

UmbraPath(n) ==
    << <<"lightTexture", "draw", "shadowQuad", Black, "alpha">> >>
    \o Wedges("lightTexture", "multiply", n)

\* getPenumbrasPoint has returned r for an active collider, with 2 inner and
\* 2 outer boundaries.
Casts(lc, r) ==
    /\ lc.mActive
    /\ ~r.loops
    /\ Len(r.innerBoundaryIndices) = 2
    /\ Len(r.outerBoundaryIndices) = 2

\* rayIntersect on the two outer boundary rays r of collider lc of entity e.
OuterRays(e, lc, r) ==
    rayIntersect(TransformPoint(Combine(transf[e], ShapeTransform(lc)),
                                lc.mShape.points[r.outerBoundaryIndices[1] + 1]),
                 r.outerBoundaryVectors[1],
                 TransformPoint(Combine(transf[e], ShapeTransform(lc)),
                                lc.mShape.points[r.outerBoundaryIndices[2] + 1]),
                 r.outerBoundaryVectors[2])

OuterRaysMeet(l, c) == OuterRays(c[1], ColliderAt(c[1], c[2]), Boundaries(l, c))

\* The draws of collider c under light l are those of exactly one path, the
\* one the outer rays of the boundaries r choose.
OnePath(l, c, r) ==
    Casts(ColliderAt(c[1], c[2]), r) =>
        IF OuterRays(c[1], ColliderAt(c[1], c[2]), r)
        THEN \E mask \in {"antumbraTriangle", "antumbraQuad"} :
                PathDraws(l, c) = AntumbraPath(mask, Len(r.penumbras))
        ELSE PathDraws(l, c) = UmbraPath(Len(r.penumbras))

\* C13: for each active collider with exactly 2 inner and 2 outer boundaries
\* PointLight::render takes exactly one of two paths.  If rayIntersect on the
\* two outer boundary rays is true, the antumbra path: the antumbra texture
\* cleared to white, a black mask shape, the wedges unmasked with additive
\* blend, the texture multiplied onto the light texture.  If it is false, the
\* umbra path: a black shadow quad on the light texture, the wedges unmasked
\* with multiplicative blend.
C13_AntumbraOrUmbraPath ==
    Rendered =>
        \A k \in 1..Len(LightRefs(lastArgs)) :
            LET l == LightRefs(lastArgs)[k]
                colliders == FrameColliders(l)
            IN  \A m \in 1..Len(colliders) :
                    LET r == Boundaries(l, colliders[m])
                    IN  OnePath(l, colliders[m], r)

\* One frame with both paths: the light of entity 1 takes the umbra path for
\* the square of its own entity, a light of entity 2 the antumbra path for
\* the square of entity 3, each with wedges to unmask.
C13_Witness ==
    /\ Rendered
    /\ lastArgs = AllEntities
    /\ Casting(<<1, 0>>, <<1, 0>>)
    /\ ~OuterRaysMeet(<<1, 0>>, <<1, 0>>)
    /\ Len(PathDraws(<<1, 0>>, <<1, 0>>)) > 1
    /\ PathDraws(<<1, 0>>, <<1, 0>>)[1][3] = "shadowQuad"
    /\ \E l \in {<<2, 1>>} :
          /\ Casting(l, <<3, 0>>)
          /\ OuterRaysMeet(l, <<3, 0>>)
          /\ Len(PathDraws(l, <<3, 0>>)) > 3
          /\ PathDraws(l, <<3, 0>>)[1][1] = "antumbraTexture"

\* The black masking draws of a collider: its silhouette, its shadow quad,
\* its antumbra mask shape.
IsMask(d) ==
    d.what \in {"silhouette", "shadowQuad", "antumbraTriangle", "antumbraQuad"}

\* The lights a frame has drawn something for.
DrawnLights == {draws[i].light : i \in 1..Len(draws)} \ {NoRef}

\* C14: in PointLight::render every black masking draw of a collider
\* (silhouette, shadow quad or antumbra mask shape) comes before every
\* penumbra wedge of that collider unmasked onto the same target, and the
\* sprite of the light is drawn onto the light texture right after its clear
\* and before any draw of a collider.
C14_MaskBeforeUnmask ==
    lastOp \in {"render", "hang"} =>
        /\ \A i, j \in 1..Len(draws) :
              (/\ IsMask(draws[i])
               /\ draws[j].what = "penumbra"
               /\ draws[j].light = draws[i].light
               /\ draws[j].collider = draws[i].collider
               /\ draws[j].target = draws[i].target) => i < j
        /\ \A l \in DrawnLights :
              \E j \in 1..(Len(draws) - 1) :
                  /\ draws[j].light = l
                  /\ draws[j].target = "lightTexture" /\ draws[j].op = "clear"
                  /\ draws[j].color = Black
                  /\ draws[j + 1].light = l
                  /\ draws[j + 1].target = "lightTexture" /\ draws[j + 1].what = "sprite"
                  /\ \A i \in 1..Len(draws) :
                        (draws[i].light = l /\ draws[i].collider # NoRef) => i > j + 1
        /\ Rendered => \A k \in 1..Len(LightRefs(lastArgs)) :
                           LightRefs(lastArgs)[k] \in DrawnLights

\* A frame in which the light of entity 1 draws the silhouette and the shadow
\* quad of the square of its entity and unmasks wedges onto the light
\* texture, and a light of entity 2 masks and unmasks the antumbra texture.
C14_Witness ==
    /\ Rendered
    /\ \E i, j, n \in 1..Len(draws) :
          /\ i < j /\ j < n
          /\ draws[i].what = "silhouette" /\ draws[i].light = <<1, 0>>
          /\ draws[j].what = "shadowQuad" /\ draws[j].light = <<1, 0>>
          /\ draws[n].what = "penumbra" /\ draws[n].light = <<1, 0>>
          /\ draws[n].target = "lightTexture"
          /\ draws[i].collider = <<1, 0>> /\ draws[j].collider = <<1, 0>>
          /\ draws[n].collider = <<1, 0>>
    /\ \E i, n \in 1..Len(draws) :
          /\ i < n
          /\ draws[i].what = "antumbraQuad" /\ draws[i].light = <<2, 1>>
          /\ draws[n].what = "penumbra" /\ draws[n].light = <<2, 1>>
          /\ draws[n].target = "antumbraTexture"
          /\ draws[n].collider = draws[i].collider

\* C15: after LightSystem::setPoints(e, points) getPointCount() of the
\* collider is points.size() and getPoint(i) is points[i] for every index i,
\* whatever point list the collider had before: a shorter one, a longer one
\* or none.
C15_SetPointsRoundTrip ==
    lastOp = "setPoints" =>
        /\ ColliderGetPointCount(ColliderAt(lastArgs.entity, lastArgs.index)) =
               Len(lastArgs.value)
        /\ \A i \in 0..(Len(lastArgs.value) - 1) :
              ColliderGetPoint(ColliderAt(lastArgs.entity, lastArgs.index), i) =
                  lastArgs.value[i + 1]

\* Two calls: the four points of the collider of entity 1 replaced by two,
\* then the empty list of the second member of entity 2 by three.
C15_Witness ==
    /\ ncalls = 2
    /\ lastOp = "setPoints"
    /\ lastArgs.entity = 2 /\ lastArgs.index = 2
    /\ lastArgs.value = ThreePoints
    /\ ColliderGetPointCount(multiShadow[2][2]) = 3
    /\ ColliderGetPoint(multiShadow[2][2], 2) = <<0, 3>>
    /\ shadow[1][1].mShape.points = TwoPoints

\* C16: two calls of getPenumbrasPoint for the same light and collider, with
\* nothing of the world changed in between and the output lists empty at
\* each call, return the same penumbra list and the same inner and outer
\* boundary lists.
C16_SameInputsSameLists ==
    [][(/\ evaluation # NoEvaluation
        /\ evaluation' # NoEvaluation
        /\ evaluation'.light = evaluation.light
        /\ evaluation'.collider = evaluation.collider
        /\ worldVars' = worldVars) =>
           evaluation'.result = evaluation.result]_vars

\* The vertices at which the one-edge facing list of collider c under light l
\* flips, in the order of the scan, and the tangent vectors computed at them
\* (Light.cpp:437-468), before any walk.
OneEdgeFlips(l, c) ==
    LET sourceCenter == TransformPoint(transf[l[1]], getCastCenter(LightAt(l[1], l[2])))
        collider == ColliderAt(c[1], c[2])
        colliderLocalTranform == Combine(ShapeTransform(collider), transf[c[1]])
        points == [i \in 1..Len(collider.mShape.points) |->
                      TransformPoint(colliderLocalTranform, collider.mShape.points[i])]
        outer == BoundaryScan([i \in 1..Len(points) |->
                                  FacingAt(points, sourceCenter, i - 1).one])
    IN  [indices |-> [bi \in 1..Len(outer) |-> outer[bi].index],
         vectors |-> [bi \in 1..Len(outer) |->
                         TangentRay(points[outer[bi].index + 1], sourceCenter,
                                    IF outer[bi].winding THEN -1 ELSE 1)]]

\* The last call of getPenumbrasPoint has returned two inner and two outer
\* boundaries.
Returns22 ==
    /\ lastOp = "getPenumbrasPoint"
    /\ InnerCount = 2
    /\ OuterCount = 2

\* C17 as stated: when getPenumbrasPoint returns with two inner and two outer
\* boundaries, outerBoundaryIndices hold the two vertices at which the
\* one-edge facing classification flips and outerBoundaryVectors the tangent
\* vectors computed at those vertices.
C17_OuterBoundariesKept ==
    Returns22 =>
        /\ evaluation.result.outerBoundaryIndices =
               OneEdgeFlips(evaluation.light, evaluation.collider).indices
        /\ evaluation.result.outerBoundaryVectors =
               OneEdgeFlips(evaluation.light, evaluation.collider).vectors

\* The wedges of the returned list that end a walk: their dark edge is the
\* tangent ray at the vertex (the zero vector for a light on the vertex),
\* while a wedge the walk goes on from has a polygon edge as its dark edge.
WalkEnds ==
    {i \in 1..Len(evaluation.result.penumbras) :
        \/ evaluation.result.penumbras[i].darkEdge.side # 0
        \/ evaluation.result.penumbras[i].darkEdge.p = <<0, 0>>}

\* Vertex index of the evaluated collider, as getPenumbrasPoint places it.
EvaluatedPoint(index) ==
    TransformPoint(Combine(ShapeTransform(EvaluatedCollider), transf[evaluation.collider[1]]),
                   EvaluatedCollider.mShape.points[index + 1])

\* C17 amended: when getPenumbrasPoint returns with two inner and two outer
\* boundaries, the two walks have overwritten both outer slots: the two
\* outer boundaries are the vertices at which the two walks stopped, each
\* with the dark edge of the last wedge of its walk, the slot of the walk
\* with winding false first.
C17_OuterBoundariesFromWalks ==
    Returns22 =>
        /\ {<<EvaluatedPoint(evaluation.result.outerBoundaryIndices[s]),
              evaluation.result.outerBoundaryVectors[s]>> : s \in {1, 2}} =
           {<<evaluation.result.penumbras[i].source,
              evaluation.result.penumbras[i].darkEdge>> : i \in WalkEnds}
        /\ evaluation.result.outerBoundaryVectors[1].side >= 0
        /\ evaluation.result.outerBoundaryVectors[2].side <= 0

\* A call whose outer boundaries are not the vertices of the one-edge flips:
\* both slots hold the ends of the walks.
C17_Witness ==
    /\ Returns22
    /\ Cardinality(WalkEnds) = 2
    /\ \E s \in {1, 2} :
          evaluation.result.outerBoundaryIndices[s] \notin
              {OneEdgeFlips(evaluation.light, evaluation.collider).indices[t] : t \in {1, 2}}
    /\ \E i \in 1..Len(evaluation.result.penumbras) : i \notin WalkEnds

Wedge(i) == evaluation.result.penumbras[i]

\* The first wedge of the walk wedge i belongs to.
WalkStart(i) ==
    CHOOSE j \in 1..i :
        /\ \A k \in j..(i - 1) : k \notin WalkEnds
        /\ j = 1 \/ (j - 1) \in WalkEnds

\* A brightness is 0.0f: the constant, or the ratio of an intersection angle
\* of 0, the light edge and the polygon edge of the wedge at that vertex
\* being parallel.
IsZeroBrightness(b) ==
    \/ b.kind = "zero"
    \/ /\ b.kind = "ratio"
       /\ \E j \in 1..Len(evaluation.result.penumbras) :
             /\ Wedge(j).source = EvaluatedPoint(b.at)
             /\ Wedge(j).darkEdge.side = 0
             /\ CrossSign(Wedge(j).lightEdge, Wedge(j).darkEdge) = 0

\* C18 as stated: in the list getPenumbrasPoint returns, the last wedge of
\* every walk has darkBrightness 0, be it the only wedge of its walk or the
\* last of a chain.
C18_LastWedgeDark ==
    lastOp = "getPenumbrasPoint" =>
        \A i \in WalkEnds : IsZeroBrightness(Wedge(i).darkBrightness)

\* C18 amended: the only wedge of a walk has darkBrightness 0 and
\* lightBrightness 1.  In a chain the swap hands the 0 to the wedge before
\* the last: the last wedge has lightBrightness 1 and as darkBrightness the
\* ratio computed at the first vertex of the walk.
C18_SwappedBrightness ==
    lastOp = "getPenumbrasPoint" =>
        \A i \in WalkEnds :
            IF WalkStart(i) = i
            THEN Wedge(i).darkBrightness = Zero /\ Wedge(i).lightBrightness = One
            ELSE /\ Wedge(i).lightBrightness = One
                 /\ Wedge(i).darkBrightness.kind = "ratio"
                 /\ EvaluatedPoint(Wedge(i).darkBrightness.at) = Wedge(WalkStart(i)).source
                 /\ Wedge(i - 1).darkBrightness = Zero

\* A returned list with a walk of one wedge and a chain whose last wedge has
\* a darkBrightness that is not 0.
C18_Witness ==
    /\ lastOp = "getPenumbrasPoint"
    /\ \E i \in WalkEnds : WalkStart(i) = i /\ Wedge(i).darkBrightness = Zero
    /\ \E i \in WalkEnds :
          /\ WalkStart(i) < i
          /\ ~IsZeroBrightness(Wedge(i).darkBrightness)
          /\ Wedge(i - 1).darkBrightness = Zero

\* sourceCenter of the evaluated light.
EvaluatedSource ==
    TransformPoint(transf[evaluation.light[1]], getCastCenter(EvaluatedLight))

\* A brightness lies in [0,1]: it is 1.0f, 0.0f, or the ratio
\* intersectionAngle / penumbraAngle of a vertex the walk went on from, where
\* the intersection angle is smaller than the penumbra angle.
InUnitInterval(b) ==
    \/ b = One
    \/ b = Zero
    \/ /\ b.kind = "ratio"
       /\ \E j \in 1..Len(evaluation.result.penumbras) :
             /\ Wedge(j).source = EvaluatedPoint(b.at)
             /\ j \notin WalkEnds
             /\ \E side \in {-1, 1} :
                   IntersectionAngleSmaller(Wedge(j).lightEdge,
                                            TangentRay(Wedge(j).source, EvaluatedSource, side),
                                            Wedge(j).darkEdge.p)

\* C19: every wedge of the list getPenumbrasPoint returns has lightBrightness
\* in [0,1] and darkBrightness in [0,1], also after the swaps between the
\* wedges of a chain.
C19_BrightnessInUnitInterval ==
    lastOp = "getPenumbrasPoint" =>
        \A i \in 1..Len(evaluation.result.penumbras) :
            /\ InUnitInterval(Wedge(i).lightBrightness)
            /\ InUnitInterval(Wedge(i).darkBrightness)

\* A returned chain after its swaps: a wedge with a ratio as lightBrightness
\* and 0 as darkBrightness, followed by one with 1 and a ratio.
C19_Witness ==
    /\ lastOp = "getPenumbrasPoint"
    /\ \E i \in 2..Len(evaluation.result.penumbras) :
          /\ Wedge(i - 1).lightBrightness.kind = "ratio"
          /\ Wedge(i - 1).darkBrightness = Zero
          /\ Wedge(i).lightBrightness = One
          /\ Wedge(i).darkBrightness.kind = "ratio"
          /\ InUnitInterval(Wedge(i).darkBrightness)

\* The wedges a frame has unmasked for collider c under light l, in the
\* order of the draws.
PenumbraDraws(l, c) ==
    SelectSeq(draws, LAMBDA d : d.what = "penumbra" /\ d.light = l /\ d.collider = c)

HasVertex(d, source, extended, edge, texCoords) ==
    \E n \in 1..3 : d.vertexArray[n] = Vertex(source, extended, edge, texCoords)

\* One triangle per wedge of the list, in list order, drawn with the two
\* brightness values of the wedge as uniforms.
OneTrianglePerWedge(ds, penumbras) ==
    /\ Len(ds) = Len(penumbras)
    /\ \A i \in 1..Len(ds) :
          /\ ds[i].wedge = i
          /\ ds[i].shader = "unshadowShader"
          /\ ds[i].lightBrightness = penumbras[i].lightBrightness
          /\ ds[i].darkBrightness = penumbras[i].darkBrightness
          /\ Len(ds[i].vertexArray) = 3

\* The texture coordinates of the source, of the light-edge apex and of the
\* dark-edge apex of every triangle.
TexCoords(ds, penumbras, atSource, atLight, atDark) ==
    \A i \in 1..Len(ds) :
        /\ HasVertex(ds[i], penumbras[i].source, FALSE, PlainVector(<<0, 0>>), atSource)
        /\ HasVertex(ds[i], penumbras[i].source, TRUE, penumbras[i].lightEdge, atLight)
        /\ HasVertex(ds[i], penumbras[i].source, TRUE, penumbras[i].darkEdge, atDark)

\* C20 as stated: unmaskWithPenumbras draws exactly one triangle per wedge,
\* in list order, with the brightness values of the wedge as uniforms, and
\* gives texture coordinate (0,1) to the dark-edge apex, (1,0) to the
\* light-edge apex and (0,0) to the source of the wedge.
C20_SourceAtOrigin ==
    Rendered =>
        \A k \in 1..Len(LightRefs(lastArgs)) :
            LET l == LightRefs(lastArgs)[k]
                colliders == FrameColliders(l)
            IN  \A m \in 1..Len(colliders) :
                    LET r == Boundaries(l, colliders[m])
                    IN  Casts(ColliderAt(colliders[m][1], colliders[m][2]), r) =>
                            /\ OneTrianglePerWedge(PenumbraDraws(l, colliders[m]), r.penumbras)
                            /\ TexCoords(PenumbraDraws(l, colliders[m]), r.penumbras,
                                         <<0, 0>>, <<1, 0>>, <<0, 1>>)

\* C20 amended: one triangle per wedge, in list order, with the brightness
\* values of the wedge as uniforms; texture coordinate (0,1) goes to the
\* source of the wedge, (1,0) to the light-edge apex and (0,0) to the
\* dark-edge apex.
C20_DarkApexAtOrigin ==
    Rendered =>
        \A k \in 1..Len(LightRefs(lastArgs)) :
            LET l == LightRefs(lastArgs)[k]
                colliders == FrameColliders(l)
            IN  \A m \in 1..Len(colliders) :
                    LET r == Boundaries(l, colliders[m])
                    IN  Casts(ColliderAt(colliders[m][1], colliders[m][2]), r) =>
                            /\ OneTrianglePerWedge(PenumbraDraws(l, colliders[m]), r.penumbras)
                            /\ TexCoords(PenumbraDraws(l, colliders[m]), r.penumbras,
                                         <<0, 1>>, <<1, 0>>, <<0, 0>>)

\* A frame that unmasks at least two wedges of the square of entity 3 for a
\* light of entity 2, the second with its own uniforms and triangle.
C20_Witness ==
    /\ Rendered
    /\ Len(PenumbraDraws(<<2, 1>>, <<3, 0>>)) >= 2
    /\ PenumbraDraws(<<2, 1>>, <<3, 0>>)[2].wedge = 2
    /\ PenumbraDraws(<<2, 1>>, <<3, 0>>)[2].vertexArray[1].texCoords = <<0, 1>>
    /\ PenumbraDraws(<<2, 1>>, <<3, 0>>)[2].vertexArray[1].position.source =
           Boundaries(<<2, 1>>, <<3, 0>>).penumbras[2].source
    /\ PenumbraDraws(<<2, 1>>, <<3, 0>>)[2].vertexArray[3].position.edge =
           Boundaries(<<2, 1>>, <<3, 0>>).penumbras[2].darkEdge
    /\ PenumbraDraws(<<2, 1>>, <<3, 0>>)[2].vertexArray[3].texCoords = <<0, 0>>

\* The draws of the shape of collider c itself under light l: its silhouette
\* in the masking loop, its shape in the loop after it.
ShapeDraws(l, c, what) ==
    SelectSeq(draws, LAMBDA d : d.light = l /\ d.collider = c /\ d.what = what)

\* C21: in PointLight::render a collider with lightOverShape is never drawn
\* in black onto the light texture by the masking loop, and the loop after it
\* draws it once, in white, with the light over shape shader; a collider
\* without the flag is drawn once in black by that loop, with the same
\* shader.
C21_LightOverShapeDrawnWhite ==
    lastOp \in {"render", "hang"} =>
        \A k \in 1..Len(LightRefs(lastArgs)) :
            LET l == LightRefs(lastArgs)[k]
                colliders == FrameColliders(l)
            IN  \A m \in 1..Len(colliders) :
                    LET c == colliders[m]
                        over == ColliderAt(c[1], c[2]).mLightOverShape
                        shapes == ShapeDraws(l, c, "shape")
                    IN  /\ over => ShapeDraws(l, c, "silhouette") = <<>>
                        /\ \A i \in 1..Len(ShapeDraws(l, c, "silhouette")) :
                              /\ ShapeDraws(l, c, "silhouette")[i].color = Black
                              /\ ShapeDraws(l, c, "silhouette")[i].target = "lightTexture"
                        /\ Rendered =>
                              /\ Len(shapes) = 1
                              /\ shapes[1].target = "lightTexture"
                              /\ shapes[1].shader = "lightOverShapeShader"
                              /\ shapes[1].color = IF over THEN White ELSE Black

\* One frame with both kinds of collider casting a shadow: the square of
\* entity 3 with lightOverShape, drawn in white and without silhouette for a
\* light of entity 2, and the triangle of entity 2 without the flag, drawn
\* with its silhouette and in black for the light of entity 1.
C21_Witness ==
    /\ Rendered
    /\ shadow[3][1].mLightOverShape
    /\ Casting(<<2, 1>>, <<3, 0>>)
    /\ ShadowDrawn(<<2, 1>>, <<3, 0>>)
    /\ ShapeDraws(<<2, 1>>, <<3, 0>>, "silhouette") = <<>>
    /\ Len(ShapeDraws(<<2, 1>>, <<3, 0>>, "shape")) = 1
    /\ ShapeDraws(<<2, 1>>, <<3, 0>>, "shape")[1].color = White
    /\ ~multiShadow[2][1].mLightOverShape
    /\ Len(ShapeDraws(<<1, 0>>, <<2, 1>>, "silhouette")) = 1
    /\ Len(ShapeDraws(<<1, 0>>, <<2, 1>>, "shape")) = 1
    /\ ShapeDraws(<<1, 0>>, <<2, 1>>, "shape")[1].color = Black

\* C22: a collider whose isActive() is false causes no draw onto the light
\* texture or the antumbra texture at any point of PointLight::render: no
\* silhouette, no shadow quad, no penumbra wedge and no draw of its shape in
\* the loop after the masking loop.
C22_InactiveColliderNotDrawn ==
    lastOp \in {"render", "hang"} =>
        \A i \in 1..Len(draws) :
            (/\ draws[i].collider # NoRef
             /\ draws[i].target \in {"lightTexture", "antumbraTexture"}) =>
                ColliderAt(draws[i].collider[1], draws[i].collider[2]).mActive

\* The boundaries a scan recorded for the facing list: vertex i is recorded
\* if and only if its facing differs from that of vertex (i-1) mod n, the
\* indices 1..n-1 come in ascending order and index 0 last, the winding of a
\* boundary is the facing of its vertex, and the count is even.
ScannedAsStated(facing, scanned) ==
    LET n == Len(facing)
    IN  /\ \A i \in 0..(n - 1) :
              (\E k \in 1..Len(scanned) : scanned[k].index = i)
                  <=> facing[i + 1] # facing[((i + n - 1) % n) + 1]
        /\ \A j, k \in 1..Len(scanned) :
              j < k => /\ scanned[j].index >= 1
                       /\ scanned[k].index = 0 \/ scanned[j].index < scanned[k].index
        /\ \A k \in 1..Len(scanned) :
              /\ scanned[k].index \in 0..(n - 1)
              /\ scanned[k].winding = facing[scanned[k].index + 1]
        /\ Len(scanned) % 2 = 0

\* C23: for any facing list of length n >= 1, of the both-edges or of the
\* one-edge test, getPenumbrasPoint records vertex i as a boundary if and
\* only if facing[i] differs from facing[(i-1) mod n], records the indices
\* 1..n-1 in ascending order followed by index 0, stores facing[i] as the
\* winding of that boundary, and so records an even number of boundaries.
C23_BoundaryAtEveryFlip ==
    lastOp = "scan" =>
        /\ ScannedAsStated(lastArgs.facingFrontBothEdges, evaluation.inner)
        /\ ScannedAsStated(lastArgs.facingFrontOneEdge, evaluation.outer)

\* A list of four vertices whose facing flips at vertex 2 and at the wrap
\* from vertex 3 to vertex 0: index 2 is recorded first, index 0 last, each
\* with the facing of its vertex.
C23_Witness ==
    /\ lastOp = "scan"
    /\ lastArgs.facingFrontBothEdges = <<TRUE, TRUE, FALSE, FALSE>>
    /\ evaluation.inner = <<[index |-> 2, winding |-> FALSE], [index |-> 0, winding |-> TRUE]>>
    /\ lastArgs.facingFrontOneEdge = <<TRUE, TRUE, TRUE, TRUE>>
    /\ evaluation.outer = <<>>

\* Index of the vertex of the evaluated collider a wedge has as its source.
SourceIndex(i) ==
    CHOOSE k \in 0..(Len(EvaluatedCollider.mShape.points) - 1) :
        EvaluatedPoint(k) = Wedge(i).source

\* Wedge i follows wedge i - 1 in the direction toward: its source is the
\* successor vertex (toward = "next") or the predecessor vertex ("prev") of
\* the source of the wedge before.
Follows(i, toward) ==
    LET numPoints == Len(EvaluatedCollider.mShape.points)
    IN  /\ \E k \in 0..(numPoints - 1) : EvaluatedPoint(k) = Wedge(i - 1).source
        /\ Wedge(i).source =
               EvaluatedPoint(IF toward = "next"
                              THEN NextIndex(SourceIndex(i - 1), numPoints)
                              ELSE PrevIndex(SourceIndex(i - 1), numPoints))

\* The wedges of the walk of wedge i, from its first wedge up to wedge i,
\* follow one another in one direction.
WalkDirections(i) ==
    {toward \in {"next", "prev"} :
        \A j \in (WalkStart(i) + 1)..i : Follows(j, toward)}

\* C24: within the chain of wedges one walk of getPenumbrasPoint emits, every
\* wedge after the first has as its source the polygon vertex adjacent, in
\* the direction of the walk, to the source of the wedge before; its light
\* edge is the dark edge of the wedge before, and that is the polygon edge
\* vector from the one source to the other.
C24_ChainFollowsPolygon ==
    lastOp \in {"getPenumbrasPoint", "hang"} =>
        \A i \in 2..Len(evaluation.result.penumbras) :
            (i - 1) \notin WalkEnds =>
                /\ WalkDirections(i) # {}
                /\ Wedge(i).lightEdge = Wedge(i - 1).darkEdge
                /\ Wedge(i - 1).darkEdge =
                       PlainVector(Sub(Wedge(i).source, Wedge(i - 1).source))

\* A returned list with a chain of three wedges along two edges of the
\* polygon.
C24_Witness ==
    /\ lastOp = "getPenumbrasPoint"
    /\ \E i \in 3..Len(evaluation.result.penumbras) :
          /\ (i - 1) \notin WalkEnds
          /\ (i - 2) \notin WalkEnds
          /\ i \in WalkEnds
          /\ Wedge(i).lightEdge = PlainVector(Sub(Wedge(i).source, Wedge(i - 1).source))
          /\ Wedge(i - 1).lightEdge = PlainVector(Sub(Wedge(i - 1).source, Wedge(i - 2).source))

\* C25: for every inner boundary vertex the wedge walk of getPenumbrasPoint
\* terminates, after emitting at least one and at most numPoints wedges, for
\* any convex polygon with at least one point and any position of the light:
\* the call returns, with one ended walk per inner boundary and no walk
\* longer than the number of points.
C25_WalkTerminates ==
    (/\ lastOp \in {"getPenumbrasPoint", "hang"}
     /\ Len(EvaluatedCollider.mShape.points) >= 1) =>
        /\ ~evaluation.result.loops
        /\ Cardinality(WalkEnds) = InnerCount
        /\ \A i \in WalkEnds :
              i - WalkStart(i) + 1 \in 1..Len(EvaluatedCollider.mShape.points)

\* The boundaries the scan of the both-edges facing list records for light l
\* and collider c, and those of the one-edge list.
Flips(l, c, criterion) ==
    LET sourceCenter == TransformPoint(transf[l[1]], getCastCenter(LightAt(l[1], l[2])))
        collider == ColliderAt(c[1], c[2])
        colliderLocalTranform == Combine(ShapeTransform(collider), transf[c[1]])
        points == [i \in 1..Len(collider.mShape.points) |->
                      TransformPoint(colliderLocalTranform, collider.mShape.points[i])]
    IN  BoundaryScan([i \in 1..Len(points) |->
                         IF criterion = "both"
                         THEN FacingAt(points, sourceCenter, i - 1).both
                         ELSE FacingAt(points, sourceCenter, i - 1).one])

\* A criterion with exactly two boundaries has recorded opposite windings.
OppositeWindings(scanned) ==
    Len(scanned) = 2 => scanned[1].winding # scanned[2].winding

\* The walk wedge i belongs to, counted in the order of the inner boundaries.
WalkOf(i) == Cardinality({e \in WalkEnds : e < i}) + 1

\* The last wedge of walk w, if the walk has ended.
Ended(w) == {e \in WalkEnds : WalkOf(e) = w}

\* Every walk starts at its inner boundary and goes the way its winding says:
\* toward successor vertices for false, toward predecessor vertices for true.
WalksFollowWindings(inner) ==
    \A i \in 1..Len(evaluation.result.penumbras) :
        /\ WalkOf(i) <= Len(inner)
        /\ IF i = 1 \/ (i - 1) \in WalkEnds
           THEN Wedge(i).source = EvaluatedPoint(inner[WalkOf(i)].index)
           ELSE Follows(i, IF inner[WalkOf(i)].winding THEN "prev" ELSE "next")

\* Walk w has ended and left its last vertex and dark edge in the slot.
SlotOfWalk(w, slot) ==
    /\ Ended(w) # {}
    /\ OuterCount >= slot
    /\ \A e \in Ended(w) :
          /\ evaluation.result.outerBoundaryIndices[slot] = SourceIndex(e)
          /\ evaluation.result.outerBoundaryVectors[slot] = Wedge(e).darkEdge

\* C26 as stated, for the calls that return: whenever a criterion yields
\* exactly two boundary indices, the two windings are opposite; with two
\* inner boundaries exactly one walk runs toward successor vertices and
\* overwrites outer boundary slot 0, exactly one runs toward predecessor
\* vertices and overwrites slot 1.
C26_BothSlotsOverwritten ==
    (lastOp = "getPenumbrasPoint" /\ InnerCount = 2) =>
        LET inner == Flips(evaluation.light, evaluation.collider, "both")
        IN  /\ OppositeWindings(inner)
            /\ OppositeWindings(Flips(evaluation.light, evaluation.collider, "one"))
            /\ WalksFollowWindings(inner)
            /\ \A w \in {1, 2} : SlotOfWalk(w, IF inner[w].winding THEN 2 ELSE 1)

\* C26 amended: whenever a criterion yields exactly two boundary indices, the
\* two windings are opposite.  With two inner boundaries each walk goes the
\* way of its winding, so at most one walk runs toward successor vertices and
\* at most one toward predecessor vertices, and both run when the call
\* returns.  A walk writes an outer boundary slot only when the outer lists
\* are not empty: then the walk toward successors leaves its end in slot 0
\* and the walk toward predecessors leaves its end in slot 1, and no slot is
\* written by both.  With empty outer lists no slot is written.
C26_WalksWriteOwnSlots ==
    (lastOp \in {"getPenumbrasPoint", "hang"} /\ InnerCount = 2) =>
        LET inner == Flips(evaluation.light, evaluation.collider, "both")
            outer == Flips(evaluation.light, evaluation.collider, "one")
        IN  /\ OppositeWindings(inner)
            /\ OppositeWindings(outer)
            /\ WalksFollowWindings(inner)
            /\ lastOp = "getPenumbrasPoint" => Ended(1) # {} /\ Ended(2) # {}
            /\ OuterCount = Len(outer)
            /\ \A w \in {1, 2} :
                  (outer # <<>> /\ Ended(w) # {}) =>
                      SlotOfWalk(w, IF inner[w].winding THEN 2 ELSE 1)

\* A returned call with two inner and two outer boundaries: a chain toward
\* predecessor vertices whose end is in slot 1 and a walk toward successor
\* vertices whose end is in slot 0, neither slot holding the boundary of the
\* scan any more.
C26_Witness ==
    /\ lastOp = "getPenumbrasPoint"
    /\ InnerCount = 2
    /\ OuterCount = 2
    /\ \E w \in {1, 2} :
          /\ Flips(evaluation.light, evaluation.collider, "both")[w].winding
          /\ ~Flips(evaluation.light, evaluation.collider, "both")[3 - w].winding
          /\ SlotOfWalk(w, 2)
          /\ SlotOfWalk(3 - w, 1)
          /\ \E e \in Ended(w) : WalkStart(e) < e
    /\ \A slot \in {1, 2} :
          evaluation.result.outerBoundaryVectors[slot] #
              OneEdgeFlips(evaluation.light, evaluation.collider).vectors[slot]

\* One call left channel c as it was if it was at the target t.
FixedAtTarget(c, c1, t) == c = t => c1 = c

\* C27: in every state the light system can reach by calls of
\* setAmbientColor and interpolateAmbientLight, a channel of the ambient
\* colour that equals the channel of the target when
\* interpolateAmbientLight(target, strength) is called is the same after the
\* call: the target is a fixed point.
C27_TargetIsFixedPoint ==
    [][(lastOp' = "interpolateAmbientLight" /\ ncalls' = ncalls + 1) =>
          /\ FixedAtTarget(mAmbientColor.r, mAmbientColor'.r, lastTarget'.r)
          /\ FixedAtTarget(mAmbientColor.g, mAmbientColor'.g, lastTarget'.g)
          /\ FixedAtTarget(mAmbientColor.b, mAmbientColor'.b, lastTarget'.b)]_vars

\* One call moved the 8-bit channel c to c1 without wrapping: a channel of
\* 255 was not incremented, a channel of 0 not decremented.
NoWrap(c, c1) ==
    /\ c = 255 => c1 \in {254, 255}
    /\ c = 0 => c1 \in {0, 1}

\* C28: after any sequence of setAmbientColor and interpolateAmbientLight
\* calls with strength > 0, every 8-bit channel of the ambient colour has
\* moved without wrapping: interpolateAmbientLight never increments a channel
\* that is 255 and never decrements a channel that is 0.
C28_ChannelsNeverWrap ==
    [][(lastOp' = "interpolateAmbientLight" /\ ncalls' = ncalls + 1) =>
          /\ NoWrap(mAmbientColor.r, mAmbientColor'.r)
          /\ NoWrap(mAmbientColor.g, mAmbientColor'.g)
          /\ NoWrap(mAmbientColor.b, mAmbientColor'.b)]_vars

\* The periods a flip of the direction can draw.
DrawnPeriods == {(factor * rflick.mBasePeriod) \div 4 : factor \in RandomFactors}

\* The tick has flipped the direction: the timer is restarted and the period
\* drawn again.
Flipped ==
    /\ rflick'.mDirection = ~rflick.mDirection
    /\ rflick'.mTimer = 0
    /\ rflick'.mPeriod \in DrawnPeriods

\* The tick has kept the direction: mTimer reads the time since the last
\* restart, the period is the same.
Kept ==
    /\ rflick'.mDirection = rflick.mDirection
    /\ rflick'.mTimer >= rflick.mTimer
    /\ rflick'.mPeriod = rflick.mPeriod

InnerRays(e, lc, r) ==
    rayIntersect(TransformPoint(Combine(transf[e], ShapeTransform(lc)),
                                lc.mShape.points[r.innerBoundaryIndices[1] + 1]),
                 r.innerBoundaryVectors[1],
                 TransformPoint(Combine(transf[e], ShapeTransform(lc)),
                                lc.mShape.points[r.innerBoundaryIndices[2] + 1]),
                 r.innerBoundaryVectors[2])

\* What a frame draws for collider c under light l comes from the lists
\* getPenumbrasPoint makes for c itself: the wedges unmasked are its wedges,
\* the antumbra mask is the one its inner boundaries give, and a collider for
\* which the call adds nothing or which is skipped has no wedge and no mask
\* in the frame.
OwnListsDrawn(l, c) ==
    LET lc == ColliderAt(c[1], c[2])
        r == Boundaries(l, c)
        wedges == PenumbraDraws(l, c)
        masks == ShapeDraws(l, c, "antumbraTriangle") \o ShapeDraws(l, c, "antumbraQuad")
    IN  IF (\E m \in 1..Len(FrameColliders(l)) : FrameColliders(l)[m] = c) /\ Casts(lc, r)
        THEN /\ OneTrianglePerWedge(wedges, r.penumbras)
             /\ TexCoords(wedges, r.penumbras, <<0, 1>>, <<1, 0>>, <<0, 0>>)
             /\ \A i \in 1..Len(masks) :
                   masks[i].what = IF InnerRays(c[1], lc, r) THEN "antumbraTriangle"
                                   ELSE "antumbraQuad"
        ELSE wedges = <<>> /\ masks = <<>>

OwnListsDrawnInFrame ==
    \A k \in 1..Len(LightRefs(lastArgs)) :
        \A c \in ColliderRefs : OwnListsDrawn(LightRefs(lastArgs)[k], c)

====
